---------------------------- MODULE Spec2Model ----------------------------
(***************************************************************************)
(* Trigger engine of the strategy package: the expression language         *)
(* (tokenizer, recursive-descent parsers, AST evaluation), the trigger     *)
(* registry (TriggerSystem) and the per-bar execution state machine        *)
(* (BaseStrategy.next / notify_order).                                     *)
(*                                                                         *)
(* Source strings are sequences of one-character strings.  Numbers are     *)
(* exact rationals [n, d] (d > 0, lowest terms) standing for the floats    *)
(* of the program; Python booleans are the rationals 1 and 0 wherever the  *)
(* program uses them as numbers.                                           *)
(***************************************************************************)
EXTENDS Integers, Sequences, FiniteSets, TLC

(***************************************************************************)
(* Characters                                                              *)
(***************************************************************************)
Digits == {"0", "1", "2", "3", "4", "5", "6", "7", "8", "9"}

Letters ==
    {"a", "b", "c", "d", "e", "f", "g", "h", "i", "j", "k", "l", "m",
     "n", "o", "p", "q", "r", "s", "t", "u", "v", "w", "x", "y", "z",
     "A", "B", "C", "D", "E", "F", "G", "H", "I", "J", "K", "L", "M",
     "N", "O", "P", "Q", "R", "S", "T", "U", "V", "W", "X", "Y", "Z", "_"}

WordChars == Letters \cup Digits

Spaces == {" ", "\t", "\n"}

DigitValue(c) ==
    CASE c = "0" -> 0 [] c = "1" -> 1 [] c = "2" -> 2 [] c = "3" -> 3
      [] c = "4" -> 4 [] c = "5" -> 5 [] c = "6" -> 6 [] c = "7" -> 7
      [] c = "8" -> 8 [] c = "9" -> 9

\* s[p] when p is inside s, otherwise a value that is no character
CharAt(s, p) == IF p >= 1 /\ p <= Len(s) THEN s[p] ELSE "<eof>"

RECURSIVE ScanClass(_, _, _)
\* first position >= p whose character is not in class (re's greedy x*)
ScanClass(s, p, class) ==
    IF CharAt(s, p) \in class THEN ScanClass(s, p + 1, class) ELSE p

\* s[from:to] of the program (1-based, to exclusive, clipped at the end)
Slice(s, from, to) ==
    IF from >= to \/ from > Len(s) THEN <<>>
    ELSE SubSeq(s, from, IF to - 1 > Len(s) THEN Len(s) ELSE to - 1)

(***************************************************************************)
(* Rationals                                                               *)
(***************************************************************************)
Abs(x) == IF x < 0 THEN -x ELSE x

RECURSIVE Gcd(_, _)
Gcd(a, b) == IF b = 0 THEN a ELSE Gcd(b, a % b)

Rat(n, d) ==
    LET Reduced(g, s) == [n |-> (s * n) \div g, d |-> (s * d) \div g]
    IN  Reduced(Gcd(Abs(n), Abs(d)), IF d < 0 THEN -1 ELSE 1)

RatInt(i) == [n |-> i, d |-> 1]
RatAdd(x, y) == Rat(x.n * y.d + y.n * x.d, x.d * y.d)
RatSub(x, y) == Rat(x.n * y.d - y.n * x.d, x.d * y.d)
RatMul(x, y) == Rat(x.n * y.n, x.d * y.d)
RatDiv(x, y) == Rat(x.n * y.d, x.d * y.n)
RatLess(x, y) == x.n * y.d < y.n * x.d
RatBool(b) == IF b THEN RatInt(1) ELSE RatInt(0)
Truthy(x) == x.n # 0

RECURSIVE Pow10(_)
Pow10(k) == IF k = 0 THEN 1 ELSE 10 * Pow10(k - 1)

RECURSIVE DigitsValue(_)
DigitsValue(ds) ==
    IF ds = <<>> THEN 0
    ELSE 10 * DigitsValue(SubSeq(ds, 1, Len(ds) - 1)) + DigitValue(ds[Len(ds)])

\* float(text) of a NUMBER token: digits, optional '.', digits
ToFloat(text) ==
    LET Parts(int, frac) == Rat(DigitsValue(int \o frac), Pow10(Len(frac)))
        At(dot) == Parts(Slice(text, 1, dot), Slice(text, dot + 1, Len(text) + 1))
    IN  At(ScanClass(text, 1, Digits))

(***************************************************************************)
(* ExpressionTokenizer                                                     *)
(***************************************************************************)
Token(type, value, position) ==
    [type |-> type, value |-> value, position |-> position]

\* Each Match* gives the end (exclusive) of the pattern's match at p, 0 for
\* no match; p is 1-based, Token.position is 0-based as in the program.
MatchLParen(s, p) == IF CharAt(s, p) = "(" THEN p + 1 ELSE 0

MatchRParen(s, p) == IF CharAt(s, p) = ")" THEN p + 1 ELSE 0

MatchComparisonOp(s, p) ==
    IF CharAt(s, p) \in {">", "<", "=", "!"} /\ CharAt(s, p + 1) = "="
    THEN p + 2
    ELSE IF CharAt(s, p) \in {">", "<"} THEN p + 1 ELSE 0

\* \b: exactly one of the characters around the position is a word character
WordBoundary(s, p) == (CharAt(s, p - 1) \in WordChars) # (CharAt(s, p) \in WordChars)

MatchLogicalOp(s, p) ==
    IF ~WordBoundary(s, p) THEN 0
    ELSE IF Slice(s, p, p + 3) = <<"a", "n", "d">> /\ WordBoundary(s, p + 3)
         THEN p + 3
    ELSE IF Slice(s, p, p + 2) = <<"o", "r">> /\ WordBoundary(s, p + 2)
         THEN p + 2
    ELSE 0

MatchMathOp(s, p) == IF CharAt(s, p) \in {"+", "-", "*", "/"} THEN p + 1 ELSE 0

MatchNumber(s, p) ==
    IF CharAt(s, p) \notin Digits THEN 0
    ELSE LET Fraction(e) == IF CharAt(s, e) = "." THEN ScanClass(s, e + 1, Digits) ELSE e
         IN  Fraction(ScanClass(s, p, Digits))

MatchIdentifier(s, p) ==
    IF CharAt(s, p) \in Letters THEN ScanClass(s, p + 1, WordChars) ELSE 0

MatchBracketVar(s, p) ==
    LET Ends(e1, e2) ==
            IF e1 # 0 /\ CharAt(s, e1) = "[" /\ e2 # 0 /\ CharAt(s, e2) = "]"
            THEN e2 + 1 ELSE 0
        Name(e1) == Ends(e1, MatchIdentifier(s, e1 + 1))
    IN  Name(MatchIdentifier(s, p))

\* one (\.name|\[digits\]) group at p, 0 for none
MatchSuffix(s, p) ==
    IF CharAt(s, p) = "." THEN MatchIdentifier(s, p + 1)
    ELSE IF CharAt(s, p) = "[" /\ CharAt(s, p + 1) \in Digits
         THEN LET Index(e) == IF CharAt(s, e) = "]" THEN e + 1 ELSE 0
              IN  Index(ScanClass(s, p + 1, Digits))
    ELSE 0

RECURSIVE ScanSuffixes(_, _)
ScanSuffixes(s, p) ==
    LET Suffix(e) == IF e # 0 THEN ScanSuffixes(s, e) ELSE p
    IN  Suffix(MatchSuffix(s, p))

MatchDotVar(s, p) ==
    LET Suffixes(e1, e) == IF e1 # 0 /\ e # e1 THEN e ELSE 0
        Name(e1) == Suffixes(e1, ScanSuffixes(s, e1))
    IN  Name(MatchIdentifier(s, p))

MatchWhitespace(s, p) ==
    IF CharAt(s, p) \in Spaces THEN ScanClass(s, p, Spaces) ELSE 0

\* TOKEN_PATTERNS in priority order; first match wins
TOKEN_PATTERNS(s, p) ==
    << [type |-> "LPAREN",        end |-> MatchLParen(s, p)],
       [type |-> "RPAREN",        end |-> MatchRParen(s, p)],
       [type |-> "COMPARISON_OP", end |-> MatchComparisonOp(s, p)],
       [type |-> "LOGICAL_OP",    end |-> MatchLogicalOp(s, p)],
       [type |-> "MATH_OP",       end |-> MatchMathOp(s, p)],
       [type |-> "NUMBER",        end |-> MatchNumber(s, p)],
       [type |-> "BRACKET_VAR",   end |-> MatchBracketVar(s, p)],
       [type |-> "DOT_VAR",       end |-> MatchDotVar(s, p)],
       [type |-> "IDENTIFIER",    end |-> MatchIdentifier(s, p)],
       [type |-> "WHITESPACE",    end |-> MatchWhitespace(s, p)] >>

\* the patterns tried in priority order with the last match winning
FirstMatchLastWins(s, p) ==
    LET Among(pats, hits) ==
            IF hits = {} THEN [type |-> "NONE", end |-> 0]
            ELSE pats[CHOOSE i \in hits : \A j \in hits : i >= j]
        Of(pats) == Among(pats, {i \in 1..Len(pats) : pats[i].end # 0})
    IN  Of(TOKEN_PATTERNS(s, p))

FirstMatch(s, p) ==
    LET Among(pats, hits) ==
            IF hits = {} THEN [type |-> "NONE", end |-> 0]
            ELSE pats[CHOOSE i \in hits : \A j \in hits : i <= j]
        Of(pats) == Among(pats, {i \in 1..Len(pats) : pats[i].end # 0})
    IN  Of(TOKEN_PATTERNS(s, p))

RECURSIVE TokenizeFrom(_, _, _)
TokenizeFrom(s, p, tokens) ==
    IF p > Len(s) THEN [ok |-> TRUE, tokens |-> tokens, position |-> p - 1, char |-> ""]
    ELSE LET Matched(m) ==
                 IF m.type = "NONE"
                 THEN [ok |-> FALSE, tokens |-> <<>>, position |-> p - 1, char |-> s[p]]
                 ELSE TokenizeFrom(s, m.end,
                        IF m.type = "WHITESPACE" THEN tokens
                        ELSE Append(tokens, Token(m.type, Slice(s, p, m.end), p - 1)))
         IN  Matched(FirstMatch(s, p))

\* ExpressionTokenizer.tokenize: ok = FALSE is TokenizeError(position, char)
Tokenize(s) == TokenizeFrom(s, 1, <<>>)

(***************************************************************************)
(* AST nodes                                                               *)
(***************************************************************************)
NumberNode(value) == [kind |-> "Number", value |-> value]

VariableNode(name) == [kind |-> "Variable", name |-> name]

MathNode(left, operator, right) ==
    [kind |-> "Math", left |-> left, operator |-> operator, right |-> right]

ComparisonNode(left, operator, right) ==
    [kind |-> "Comparison", left |-> left, operator |-> operator, right |-> right]

LogicalNode(left, operator, right) ==
    [kind |-> "Logical", left |-> left, operator |-> operator, right |-> right]

NoNode == [kind |-> "None"]

(***************************************************************************)
(* BaseParser / ExpressionParser / ConditionParser                         *)
(* A parse result is [ok, node, pos, err]: pos is the parser's position    *)
(* (1-based index of the next token); ok = FALSE is the ValueError the     *)
(* method raises, err its message.  cls is the class of self, which        *)
(* decides the _parse_primary_expression that runs.                        *)
(***************************************************************************)
Parsed(node, pos) == [ok |-> TRUE, node |-> node, pos |-> pos, err |-> ""]

Raise(err) == [ok |-> FALSE, node |-> NoNode, pos |-> 0, err |-> err]

\* _current_token: the token at pos, or None
HasToken(tokens, pos) == pos <= Len(tokens)

TokenType(tokens, pos) == IF HasToken(tokens, pos) THEN tokens[pos].type ELSE "EOF"

TokenValue(tokens, pos) == IF HasToken(tokens, pos) THEN tokens[pos].value ELSE <<>>

RECURSIVE ParseOr(_, _, _), OrLoop(_, _, _, _), ParseAnd(_, _, _), AndLoop(_, _, _, _)
RECURSIVE ParseComparison(_, _, _), ParseAdditive(_, _, _), AdditiveLoop(_, _, _, _)
RECURSIVE ParseMultiplicative(_, _, _), MultiplicativeLoop(_, _, _, _)
RECURSIVE ParsePrimary(_, _, _), BasePrimary(_, _, _), ConditionPrimary(_, _, _)

\* the closing parenthesis after the sub-expression r
Closing(tokens, r) ==
    IF ~r.ok THEN r
    ELSE IF TokenType(tokens, r.pos) # "RPAREN" THEN Raise("Missing closing parenthesis")
    ELSE Parsed(r.node, r.pos + 1)

\* BaseParser._parse_primary_expression
BasePrimary(tokens, pos, cls) ==
    IF TokenType(tokens, pos) = "LPAREN"
    THEN Closing(tokens, ParseAdditive(tokens, pos + 1, cls))
    ELSE IF TokenType(tokens, pos) = "NUMBER"
         THEN Parsed(NumberNode(ToFloat(tokens[pos].value)), pos + 1)
    ELSE IF TokenType(tokens, pos) \in {"IDENTIFIER", "BRACKET_VAR", "DOT_VAR"}
         THEN Parsed(VariableNode(tokens[pos].value), pos + 1)
    ELSE Raise("Unexpected token")

\* _parse_primary_expression of ConditionParser without the retry
ConditionRetryWithoutRewind(tokens, saved_position, cls, math) ==
    IF math.ok /\ TokenType(tokens, math.pos) = "RPAREN"
    THEN Parsed(math.node, math.pos + 1)
    ELSE Raise("Missing closing parenthesis")

\* the except branch of ConditionParser._parse_primary_expression: math is
\* the arithmetic attempt from saved_position
ConditionRetry(tokens, saved_position, cls, math) ==
    IF math.ok /\ TokenType(tokens, math.pos) = "RPAREN"
    THEN Parsed(math.node, math.pos + 1)
    ELSE Closing(tokens, ParseOr(tokens, saved_position, cls))

\* ConditionParser._parse_primary_expression: arithmetic first, then
\* rewind to the token after '(' and retry as a boolean sub-expression
ConditionPrimary(tokens, pos, cls) ==
    IF TokenType(tokens, pos) = "LPAREN"
    THEN ConditionRetry(tokens, pos + 1, cls, ParseAdditive(tokens, pos + 1, cls))
    ELSE BasePrimary(tokens, pos, cls)

\* self._parse_primary_expression(), dispatched on the class of self
ParsePrimary(tokens, pos, cls) ==
    IF cls = "ConditionParser" THEN ConditionPrimary(tokens, pos, cls)
    ELSE BasePrimary(tokens, pos, cls)

\* the body of the while loop of _parse_multiplicative_expression, right
\* being the operand after the operator at pos
MultiplicativeStep(tokens, left, pos, cls, right) ==
    IF ~right.ok THEN right
    ELSE MultiplicativeLoop(tokens, MathNode(left, tokens[pos].value[1], right.node),
                            right.pos, cls)

\* _parse_multiplicative_expression taking a sum as its right operand
MultiplicativeLoopTakingSums(tokens, left, pos, cls) ==
    IF TokenValue(tokens, pos) \in {<<"*">>, <<"/">>}
    THEN MultiplicativeStep(tokens, left, pos, cls, ParseAdditive(tokens, pos + 1, cls))
    ELSE Parsed(left, pos)

MultiplicativeLoop(tokens, left, pos, cls) ==
    IF TokenValue(tokens, pos) \in {<<"*">>, <<"/">>}
    THEN MultiplicativeStep(tokens, left, pos, cls, ParsePrimary(tokens, pos + 1, cls))
    ELSE Parsed(left, pos)

MultiplicativeFrom(tokens, cls, left) ==
    IF ~left.ok THEN left ELSE MultiplicativeLoop(tokens, left.node, left.pos, cls)

\* BaseParser._parse_multiplicative_expression
ParseMultiplicative(tokens, pos, cls) ==
    MultiplicativeFrom(tokens, cls, ParsePrimary(tokens, pos, cls))

AdditiveStep(tokens, left, pos, cls, right) ==
    IF ~right.ok THEN right
    ELSE AdditiveLoop(tokens, MathNode(left, tokens[pos].value[1], right.node),
                      right.pos, cls)

AdditiveLoop(tokens, left, pos, cls) ==
    IF TokenValue(tokens, pos) \in {<<"+">>, <<"-">>}
    THEN AdditiveStep(tokens, left, pos, cls, ParseMultiplicative(tokens, pos + 1, cls))
    ELSE Parsed(left, pos)

AdditiveFrom(tokens, cls, left) ==
    IF ~left.ok THEN left ELSE AdditiveLoop(tokens, left.node, left.pos, cls)

\* BaseParser._parse_additive_expression
ParseAdditive(tokens, pos, cls) ==
    AdditiveFrom(tokens, cls, ParseMultiplicative(tokens, pos, cls))

ComparisonRight(tokens, left, right) ==
    IF ~right.ok THEN right
    ELSE Parsed(ComparisonNode(left.node, tokens[left.pos].value, right.node), right.pos)

\* _parse_comparison_expression returning an arithmetic operand as it is
ComparisonFromAcceptingArithmetic(tokens, cls, left) ==
    IF ~left.ok THEN left
    ELSE IF TokenType(tokens, left.pos) = "COMPARISON_OP"
         THEN ComparisonRight(tokens, left, ParseAdditive(tokens, left.pos + 1, cls))
    ELSE left

ComparisonFrom(tokens, cls, left) ==
    IF ~left.ok THEN left
    ELSE IF TokenType(tokens, left.pos) = "COMPARISON_OP"
         THEN ComparisonRight(tokens, left, ParseAdditive(tokens, left.pos + 1, cls))
    ELSE IF left.node.kind \in {"Logical", "Comparison"} THEN left
    ELSE Raise("Mathematical expression must be part of a comparison")

\* ConditionParser._parse_comparison_expression
ParseComparison(tokens, pos, cls) ==
    ComparisonFrom(tokens, cls, ParseAdditive(tokens, pos, cls))

AndStep(tokens, left, cls, right) ==
    IF ~right.ok THEN right
    ELSE AndLoop(tokens, LogicalNode(left, "and", right.node), right.pos, cls)

AndLoop(tokens, left, pos, cls) ==
    IF TokenValue(tokens, pos) = <<"a", "n", "d">>
    THEN AndStep(tokens, left, cls, ParseComparison(tokens, pos + 1, cls))
    ELSE Parsed(left, pos)

AndFrom(tokens, cls, left) ==
    IF ~left.ok THEN left ELSE AndLoop(tokens, left.node, left.pos, cls)

\* ConditionParser._parse_and_expression
ParseAnd(tokens, pos, cls) == AndFrom(tokens, cls, ParseComparison(tokens, pos, cls))

OrStep(tokens, left, cls, right) ==
    IF ~right.ok THEN right
    ELSE OrLoop(tokens, LogicalNode(left, "or", right.node), right.pos, cls)

OrLoop(tokens, left, pos, cls) ==
    IF TokenValue(tokens, pos) = <<"o", "r">>
    THEN OrStep(tokens, left, cls, ParseAnd(tokens, pos + 1, cls))
    ELSE Parsed(left, pos)

OrFrom(tokens, cls, left) ==
    IF ~left.ok THEN left ELSE OrLoop(tokens, left.node, left.pos, cls)

\* ConditionParser._parse_or_expression
ParseOr(tokens, pos, cls) == OrFrom(tokens, cls, ParseAnd(tokens, pos, cls))

\* parse without the check of the tokens left over
WholeInputUnchecked(tokens, result) == result

\* the tokens left over after the top-level expression
WholeInput(tokens, result) ==
    IF ~result.ok THEN result
    ELSE IF result.pos <= Len(tokens) THEN Raise("Unexpected token")
    ELSE result

\* ConditionParser.parse
ConditionParse(tokens) == WholeInput(tokens, ParseOr(tokens, 1, "ConditionParser"))

\* ExpressionParser.parse
ExpressionParse(tokens) == WholeInput(tokens, ParseAdditive(tokens, 1, "ExpressionParser"))

(***************************************************************************)
(* Python values held by an evaluation context                             *)
(***************************************************************************)
PyFloat(v) == [t |-> "float", v |-> v]

\* an object with the given attributes (name -> value); float() of it fails
PyObject(attrs) == [t |-> "object", attrs |-> attrs]

PyDict(items) == [t |-> "dict", items |-> items]

PyList(elems) == [t |-> "list", elems |-> elems]

PyMethod == [t |-> "method"]

\* attributes every dict has (bound methods)
DictAttrs == {<<"i", "t", "e", "m", "s">>, <<"k", "e", "y", "s">>,
              <<"v", "a", "l", "u", "e", "s">>, <<"g", "e", "t">>}

EmptyMap == [x \in {} |-> PyMethod]

\* an evaluation outcome: ok with a value, or the exception raised
Ok(val) == [ok |-> TRUE, val |-> val, exc |-> "", msg |-> ""]

Exc(exc, msg) == [ok |-> FALSE, val |-> RatInt(0), exc |-> exc, msg |-> msg]

\* float(x)
Float(x) ==
    IF x.t = "float" THEN Ok(x.v)
    ELSE Exc("TypeError", "float() argument must be a string or a number")

(***************************************************************************)
(* VariableNode                                                            *)
(***************************************************************************)
NamePart(v) == [t |-> "name", v |-> v]
IntPart(v) == [t |-> "int", v |-> v]
ListPart(v) == [t |-> "list", v |-> v]

IsDigitStr(text) == text # <<>> /\ \A i \in 1..Len(text) : text[i] \in Digits

RECURSIVE ScanBracket(_, _, _, _)
\* the inner while loop of _build_parts: [i, content]
ScanBracket(name, i, bracket_count, bracket_content) ==
    IF i <= Len(name) /\ bracket_count > 0
    THEN LET count == IF name[i] = "[" THEN bracket_count + 1
                      ELSE IF name[i] = "]" THEN bracket_count - 1
                      ELSE bracket_count
         IN  ScanBracket(name, i + 1, count,
                         IF count > 0 THEN Append(bracket_content, name[i])
                         ELSE bracket_content)
    ELSE [i |-> i, content |-> bracket_content]

RECURSIVE BuildParts(_), BuildLoop(_, _, _, _)
BuildLoop(name, i, current_part, parts) ==
    LET flushed == IF current_part # <<>> THEN Append(parts, NamePart(current_part))
                   ELSE parts
    IN  IF i > Len(name) THEN flushed
        ELSE IF name[i] = "." THEN BuildLoop(name, i + 1, <<>>, flushed)
        ELSE IF name[i] = "["
             THEN LET b == ScanBracket(name, i + 1, 1, <<>>)
                      part == IF IsDigitStr(b.content)
                              THEN ListPart(<<IntPart(DigitsValue(b.content))>>)
                              ELSE ListPart(BuildParts(b.content))
                  IN  BuildLoop(name, b.i, <<>>, Append(flushed, part))
        ELSE BuildLoop(name, i + 1, Append(current_part, name[i]), parts)

\* VariableNode._build_parts
BuildParts(name) == IF name = <<>> THEN <<>> ELSE BuildLoop(name, 1, <<>>, <<>>)

\* hasattr(context, name) / getattr(context, name)
HasAttr(context, name) ==
    \/ context.t = "object" /\ name \in DOMAIN context.attrs
    \/ context.t = "dict" /\ name \in DictAttrs

GetAttr(context, name) ==
    IF context.t = "object" THEN context.attrs[name] ELSE PyMethod

NotFound(full_name) == Exc("EvaluationError", "Variable not found in context")

\* VariableNode._evaluate_name; full_name is self.name
EvaluateName(context, part, full_name) ==
    IF part.t = "int"
    THEN IF context.t = "list" /\ part.v < Len(context.elems)
         THEN [ok |-> TRUE, val |-> context.elems[part.v + 1], exc |-> "", msg |-> ""]
         ELSE Exc("EvaluationError", "Index out of range")
    ELSE IF HasAttr(context, part.v)
         THEN [ok |-> TRUE, val |-> GetAttr(context, part.v), exc |-> "", msg |-> ""]
    ELSE IF context.t = "dict" /\ part.v \in DOMAIN context.items
         THEN [ok |-> TRUE, val |-> context.items[part.v], exc |-> "", msg |-> ""]
    ELSE NotFound(full_name)

RECURSIVE EvaluatePath(_, _, _), EvaluatePathLoop(_, _, _, _)
EvaluatePathLoop(current, parts, k, full_name) ==
    IF k > Len(parts) THEN [ok |-> TRUE, val |-> current, exc |-> "", msg |-> ""]
    ELSE LET Step(step) ==
                 IF ~step.ok THEN step
                 ELSE EvaluatePathLoop(step.val, parts, k + 1, full_name)
         IN  Step(IF parts[k].t = "list"
                  THEN EvaluatePath(current, parts[k].v, full_name)
                  ELSE EvaluateName(current, parts[k], full_name))

\* VariableNode._evaluate_path
EvaluatePath(context, parts, full_name) ==
    IF parts = <<>> THEN Exc("EvaluationError", "Variable name cannot be empty")
    ELSE EvaluatePathLoop(context, parts, 1, full_name)

StrategyKey == <<"s", "t", "r", "a", "t", "e", "g", "y">>

\* VariableNode.evaluate resolving a name of several parts through the
\* strategy object before looking for it among the keys of the context
VariableEvaluatePathFirst(name, context) ==
    LET Converted(value) ==
            IF value.ok THEN value
            ELSE Exc("EvaluationError", "Cannot convert variable to float")
        Resolved(current) == IF ~current.ok THEN current ELSE Float(current.val)
        Flat(parts) ==
            IF name \in DOMAIN context THEN Converted(Float(context[name]))
            ELSE NotFound(name)
        Path(parts, strategy) ==
            IF Len(parts) > 1 THEN Resolved(EvaluatePath(strategy, parts, name))
            ELSE Flat(parts)
    IN  Path(BuildParts(name),
             IF StrategyKey \in DOMAIN context THEN context[StrategyKey]
             ELSE PyDict(EmptyMap))

\* VariableNode.evaluate; context is a function from keys to Python values
VariableEvaluate(name, context) ==
    LET Converted(value) ==
            IF value.ok THEN value
            ELSE Exc("EvaluationError", "Cannot convert variable to float")
        Resolved(current) == IF ~current.ok THEN current ELSE Float(current.val)
        Path(parts, strategy) ==
            IF Len(parts) > 1 THEN Resolved(EvaluatePath(strategy, parts, name))
            ELSE NotFound(name)
    IN  IF name \in DOMAIN context THEN Converted(Float(context[name]))
        ELSE Path(BuildParts(name),
                  IF StrategyKey \in DOMAIN context THEN context[StrategyKey]
                  ELSE PyDict(EmptyMap))

(***************************************************************************)
(* AST evaluation                                                          *)
(***************************************************************************)
\* an exception that is no EvaluationError leaves a Comparison, Logical or
\* Math node wrapped into one
Wrap(r, msg) == IF r.ok \/ r.exc = "EvaluationError" THEN r ELSE Exc("EvaluationError", msg)

Compare(operator, l, r) ==
    CASE operator = <<">">> -> RatLess(r, l)
      [] operator = <<"<">> -> RatLess(l, r)
      [] operator = <<">", "=">> -> ~RatLess(l, r)
      [] operator = <<"<", "=">> -> ~RatLess(r, l)
      [] operator = <<"=", "=">> -> l = r
      [] operator = <<"!", "=">> -> l # r

RECURSIVE Evaluate(_, _)
\* evaluate with a LogicalNode that evaluates both operands first
EvaluateEagerly(node, context) ==
    CASE node.kind = "Number" -> Ok(node.value)
      [] node.kind = "Variable" -> VariableEvaluate(node.name, context)
      [] node.kind = "Math" ->
            LET left_value == Evaluate(node.left, context)
                right_value == Evaluate(node.right, context)
            IN  Wrap(IF ~left_value.ok THEN left_value
                     ELSE IF ~right_value.ok THEN right_value
                     ELSE IF node.operator = "+"
                          THEN Ok(RatAdd(left_value.val, right_value.val))
                     ELSE IF node.operator = "-"
                          THEN Ok(RatSub(left_value.val, right_value.val))
                     ELSE IF node.operator = "*"
                          THEN Ok(RatMul(left_value.val, right_value.val))
                     ELSE IF right_value.val.n = 0
                          THEN Exc("EvaluationError", "Division by zero")
                     ELSE Ok(RatDiv(left_value.val, right_value.val)),
                     "Mathematical evaluation failed")
      [] node.kind = "Comparison" ->
            LET left_value == Evaluate(node.left, context)
                right_value == Evaluate(node.right, context)
            IN  Wrap(IF ~left_value.ok THEN left_value
                     ELSE IF ~right_value.ok THEN right_value
                     ELSE Ok(RatBool(Compare(node.operator, left_value.val,
                                             right_value.val))),
                     "Comparison evaluation failed")
      [] node.kind = "Logical" ->
            LET left_value == Evaluate(node.left, context)
                right_value == Evaluate(node.right, context)
            IN  Wrap(IF ~left_value.ok THEN left_value
                     ELSE IF ~right_value.ok THEN right_value
                     ELSE IF node.operator = "and"
                          THEN Ok(RatBool(Truthy(left_value.val) /\ Truthy(right_value.val)))
                     ELSE Ok(RatBool(Truthy(left_value.val) \/ Truthy(right_value.val))),
                     "Logical evaluation failed")

\* evaluate with a division that gives 0 for a divisor of 0
EvaluateDividingByZero(node, context) ==
    CASE node.kind = "Number" -> Ok(node.value)
      [] node.kind = "Variable" -> VariableEvaluate(node.name, context)
      [] node.kind = "Math" ->
            LET left_value == Evaluate(node.left, context)
                right_value == Evaluate(node.right, context)
            IN  Wrap(IF ~left_value.ok THEN left_value
                     ELSE IF ~right_value.ok THEN right_value
                     ELSE IF node.operator = "+"
                          THEN Ok(RatAdd(left_value.val, right_value.val))
                     ELSE IF node.operator = "-"
                          THEN Ok(RatSub(left_value.val, right_value.val))
                     ELSE IF node.operator = "*"
                          THEN Ok(RatMul(left_value.val, right_value.val))
                     ELSE IF right_value.val.n = 0
                          THEN Ok(RatInt(0))
                     ELSE Ok(RatDiv(left_value.val, right_value.val)),
                     "Mathematical evaluation failed")
      [] node.kind = "Comparison" ->
            LET left_value == Evaluate(node.left, context)
                right_value == Evaluate(node.right, context)
            IN  Wrap(IF ~left_value.ok THEN left_value
                     ELSE IF ~right_value.ok THEN right_value
                     ELSE Ok(RatBool(Compare(node.operator, left_value.val,
                                             right_value.val))),
                     "Comparison evaluation failed")
      [] node.kind = "Logical" ->
            LET left_value == Evaluate(node.left, context)
                right_value == Evaluate(node.right, context)
            IN  Wrap(IF ~left_value.ok THEN left_value
                     ELSE IF node.operator = "and" /\ ~Truthy(left_value.val)
                          THEN Ok(RatBool(FALSE))
                     ELSE IF node.operator = "or" /\ Truthy(left_value.val)
                          THEN Ok(RatBool(TRUE))
                     ELSE IF ~right_value.ok THEN right_value
                     ELSE Ok(RatBool(Truthy(right_value.val))),
                     "Logical evaluation failed")

\* ExpressionNode.evaluate of each node class
Evaluate(node, context) ==
    CASE node.kind = "Number" -> Ok(node.value)
      [] node.kind = "Variable" -> VariableEvaluate(node.name, context)
      [] node.kind = "Math" ->
            LET left_value == Evaluate(node.left, context)
                right_value == Evaluate(node.right, context)
            IN  Wrap(IF ~left_value.ok THEN left_value
                     ELSE IF ~right_value.ok THEN right_value
                     ELSE IF node.operator = "+"
                          THEN Ok(RatAdd(left_value.val, right_value.val))
                     ELSE IF node.operator = "-"
                          THEN Ok(RatSub(left_value.val, right_value.val))
                     ELSE IF node.operator = "*"
                          THEN Ok(RatMul(left_value.val, right_value.val))
                     ELSE IF right_value.val.n = 0
                          THEN Exc("EvaluationError", "Division by zero")
                     ELSE Ok(RatDiv(left_value.val, right_value.val)),
                     "Mathematical evaluation failed")
      [] node.kind = "Comparison" ->
            LET left_value == Evaluate(node.left, context)
                right_value == Evaluate(node.right, context)
            IN  Wrap(IF ~left_value.ok THEN left_value
                     ELSE IF ~right_value.ok THEN right_value
                     ELSE Ok(RatBool(Compare(node.operator, left_value.val,
                                             right_value.val))),
                     "Comparison evaluation failed")
      [] node.kind = "Logical" ->
            LET left_value == Evaluate(node.left, context)
                right_value == Evaluate(node.right, context)
            IN  Wrap(IF ~left_value.ok THEN left_value
                     ELSE IF node.operator = "and" /\ ~Truthy(left_value.val)
                          THEN Ok(RatBool(FALSE))
                     ELSE IF node.operator = "or" /\ Truthy(left_value.val)
                          THEN Ok(RatBool(TRUE))
                     ELSE IF ~right_value.ok THEN right_value
                     ELSE Ok(RatBool(Truthy(right_value.val))),
                     "Logical evaluation failed")

(***************************************************************************)
(* BaseEvaluator / ConditionEvaluator / ExpressionEvaluator                *)
(* A cache (_expression_cache) is the sequence of its entries [src, ast]   *)
(* in insertion order, as the dict keeps them.                             *)
(***************************************************************************)
\* BaseEvaluator(cache_size): the capacity the evaluator is built with
cache_size == 2

\* expression_str.strip() is empty
IsBlank(s) == \A i \in 1..Len(s) : s[i] \in Spaces

\* tokenizer + parser of parse_expression: [ok, node]; ok = FALSE is the
\* ParseError every failure is turned into
ParseTokens(tokens, cls) ==
    IF ~tokens.ok THEN [ok |-> FALSE, node |-> NoNode, pos |-> 0, err |-> "TokenizeError"]
    ELSE IF cls = "ConditionParser" THEN ConditionParse(tokens.tokens)
    ELSE ExpressionParse(tokens.tokens)

ParseString(s, cls) == ParseTokens(Tokenize(s), cls)

\* _manage_cache deleting the newest entry of a full cache
ManageCacheEvictingNewest(cache, expression_str, ast) ==
    Append(IF Len(cache) >= cache_size THEN SubSeq(cache, 1, Len(cache) - 1) ELSE cache,
           [src |-> expression_str, ast |-> ast])

\* BaseEvaluator._manage_cache
ManageCache(cache, expression_str, ast) ==
    Append(IF Len(cache) >= cache_size THEN Tail(cache) ELSE cache,
           [src |-> expression_str, ast |-> ast])

CacheKeys(cache) == {cache[i].src : i \in 1..Len(cache)}

\* BaseEvaluator._get_from_cache (for a resident key)
GetFromCache(cache, expression_str) ==
    cache[CHOOSE i \in 1..Len(cache) : cache[i].src = expression_str].ast

\* parse_expression of ConditionEvaluator (cls = "ConditionParser") and of
\* ExpressionEvaluator (cls = "ExpressionParser"): [ok, node, cache];
\* ok = FALSE is ParseError
\* the try block of parse_expression caching the failure of a parse too
ParseFreshCachingFailure(cache, expression_str, parsed) ==
    [ok |-> parsed.ok, node |-> parsed.node,
     cache |-> ManageCache(cache, expression_str, parsed.node)]

\* the try block of parse_expression after a cache miss
ParseFresh(cache, expression_str, parsed) ==
    IF ~parsed.ok THEN [ok |-> FALSE, node |-> NoNode, cache |-> cache]
    ELSE [ok |-> TRUE, node |-> parsed.node,
          cache |-> ManageCache(cache, expression_str, parsed.node)]

ParseExpression(cache, expression_str, cls) ==
    IF IsBlank(expression_str)
    THEN [ok |-> FALSE, node |-> NoNode, cache |-> cache]
    ELSE IF expression_str \in CacheKeys(cache)
         THEN [ok |-> TRUE, node |-> GetFromCache(cache, expression_str),
               cache |-> cache]
    ELSE ParseFresh(cache, expression_str, ParseString(expression_str, cls))

\* a condition is a source string or a callable
StrCondition(src) == [kind |-> "str", src |-> src]

CallableCondition(fn) == [kind |-> "callable", fn |-> fn]

\* condition(context) of a callable condition
Call(fn, context) ==
    CASE fn = "always" -> Ok(RatBool(TRUE))
      [] fn = "raises" -> Exc("KeyError", "close")

\* ConditionEvaluator.evaluate: [ok, val, cache]; ok = FALSE is EvaluationError
\* bool(result) of an evaluation r, or the EvaluationError it is turned into
ConditionResult(r, cache) == [ok |-> r.ok, val |-> r.ok /\ Truthy(r.val), cache |-> cache]

\* ast.evaluate(context) of the parsed condition
ConditionAst(ast, context) ==
    IF ~ast.ok THEN [ok |-> FALSE, val |-> FALSE, cache |-> ast.cache]
    ELSE ConditionResult(Evaluate(ast.node, context), ast.cache)

ConditionEvaluate(cache, condition, context) ==
    IF condition.kind = "callable"
    THEN ConditionResult(Call(condition.fn, context), cache)
    ELSE ConditionAst(ParseExpression(cache, condition.src, "ConditionParser"), context)

\* ExpressionEvaluator.evaluate of a source string: [ok, val, cache]
ExpressionResult(r, cache) == [ok |-> r.ok, val |-> r.val, cache |-> cache]

\* ast.evaluate(context) of the parsed expression
ExpressionAst(ast, context) ==
    IF ~ast.ok THEN [ok |-> FALSE, val |-> RatInt(0), cache |-> ast.cache]
    ELSE ExpressionResult(Evaluate(ast.node, context), ast.cache)

ExpressionEvaluate(cache, expression, context) ==
    ExpressionAst(ParseExpression(cache, expression, "ExpressionParser"), context)

\* The caches of the strategy's and the trigger system's evaluators are not
\* part of the engine's state below: a resident entry is the AST the parser
\* gives for its key, so there an evaluator is used with an empty cache.
NoCache == <<>>

(***************************************************************************)
(* Trigger model (trigger_system.py) and the inputs of the model           *)
(***************************************************************************)
TriggerAction(name, type, parameters) ==
    [name |-> name, type |-> type, parameters |-> parameters]

Trigger(name, condition, actions) ==
    [name |-> name, condition |-> condition, actions |-> actions, enabled |-> TRUE]

SrcCloseAbove == <<"c", "l", "o", "s", "e", " ", ">", " ", "1", "0", "0">>
SrcCloseBelow == <<"c", "l", "o", "s", "e", " ", "<", " ", "1", "0", "0">>
SrcSmaBelowClose == <<"i", "n", "d", "i", "c", "a", "t", "o", "r", "s", ".", "s", "m", "a", " ", "<", " ", "c", "l", "o", "s", "e">>
SrcDangling == <<"c", "l", "o", "s", "e", " ", ">">>
SrcBadChar == <<"c", "l", "o", "s", "e", " ", ">", "@", " ", "1", "0", "0">>
SrcBlank == <<" ">>
SrcSma == <<"i", "n", "d", "i", "c", "a", "t", "o", "r", "s", ".", "s", "m", "a">>

Buy == TriggerAction("buy", "TradeAction", [signal |-> "Long"])
Stop == TriggerAction("stop", "TradeAction", [signal |-> "Short", orderType |-> "StopTrail"])
LimitBuy == TriggerAction("limit", "TradeAction",
                          [signal |-> "Long", orderType |-> "Limit", price |-> SrcSma])
\* a second action called "buy", with other parameters
SellNamedBuy == TriggerAction("buy", "TradeAction", [signal |-> "Short", orderType |-> "Limit"])
Hold == TriggerAction("hold", "TradeAction", [signal |-> "Hold"])
Bracket == TriggerAction("bracket", "TradeAction", [signal |-> "Short", orderType |-> "Bracket"])
Foreign == TriggerAction("foreign", "TradeAction", [ticker |-> "MSFT"])

\* the Trigger objects add_trigger is called with
TriggerCatalog ==
    { Trigger("entry", StrCondition(SrcCloseAbove), <<Buy, Stop, SellNamedBuy>>),
      Trigger("entry", StrCondition(SrcCloseBelow), <<LimitBuy, Foreign>>),
      Trigger("exit", StrCondition(SrcSmaBelowClose), <<Stop, Bracket>>),
      Trigger("exit", CallableCondition("always"), <<Hold, Stop>>),
      Trigger("exit", StrCondition(SrcDangling), <<Stop>>),
      Trigger("exit", StrCondition(SrcBadChar), <<Stop>>),
      Trigger("exit", StrCondition(SrcBlank), <<Buy>>) }

TriggerNames == {t.name : t \in TriggerCatalog}

\* the close prices and indicator values a bar can carry; None: the value
\* of the indicator cannot be extracted on this bar
None == 0
Closes == {50, 150}
SmaValues == {None, 100}

\* names of the data feeds after the primary one
FeedNames == {"SPY"}

\* the bars of the model
Bars == [close : Closes, sma : SmaValues]

(***************************************************************************)
(* State                                                                   *)
(***************************************************************************)
VARIABLES
    triggers,           \* TriggerSystem.triggers: the Trigger records in insertion order
    trigger_orders,     \* BaseStrategy.trigger_orders: trigger -> action name -> order or None
    pending_actions,    \* BaseStrategy.pending_actions: trigger -> queued action names
    active_triggers,    \* BaseStrategy.active_triggers
    executed_triggers,  \* BaseStrategy.executed_triggers: [name, date]
    orders,             \* the broker's orders, by ref: [trigger, action, date, status]
    date,               \* number of the current bar
    data,               \* the current bar: [close, sma]
    last,               \* the last call made and how it returned
    evaluator,          \* the class of the evaluator's parser
    cache,              \* BaseEvaluator._expression_cache of that evaluator
    source,             \* the expression string handed to the evaluator
    reference,          \* the reference tree the expression string was written from
    answer,             \* how the evaluator's last call returned
    jobs,               \* JobManager._jobs: the BacktestJob records in insertion order
    creating,           \* the jobs built by create_job calls that wait for the lock
    threads,            \* the background workers: job_id -> what the worker does next
    clock               \* the number of jobs built so far

vars == <<triggers, trigger_orders, pending_actions, active_triggers,
          executed_triggers, orders, date, data, last,
          evaluator, cache, source, reference, answer,
          jobs, creating, threads, clock>>

(***************************************************************************)
(* Python dicts as functions                                               *)
(***************************************************************************)
EmptyDict == [k \in {} |-> None]

\* d[k] = v
Put(d, k, v) == [x \in DOMAIN d \cup {k} |-> IF x = k THEN v ELSE d[x]]

\* d.pop(k, None) / del d[k]
Pop(d, k) == [x \in DOMAIN d \ {k} |-> d[x]]

\* d.setdefault(k, v)
SetDefault(d, k, v) == IF k \in DOMAIN d THEN d ELSE Put(d, k, v)

\* list.remove at an index
RemoveAt(seq, i) == SubSeq(seq, 1, i - 1) \o SubSeq(seq, i + 1, Len(seq))

(***************************************************************************)
(* BaseStrategy (base.py).  The methods are operators on the record st of  *)
(* the strategy's mutable fields and the broker's orders; a method that    *)
(* can raise returns [st, exc, ...] with exc = TRUE when it raised.        *)
(***************************************************************************)
MaxBars == 2

KeyOpen == <<"o", "p", "e", "n">>
KeyHigh == <<"h", "i", "g", "h">>
KeyLow == <<"l", "o", "w">>
KeyClose == <<"c", "l", "o", "s", "e">>
KeyVolume == <<"v", "o", "l", "u", "m", "e">>
KeyDatas == <<"d", "a", "t", "a", "s">>
KeyTickers == <<"t", "i", "c", "k", "e", "r", "s">>
KeyIndicators == <<"i", "n", "d", "i", "c", "a", "t", "o", "r", "s">>
KeySma == <<"s", "m", "a">>
KeyIndicatorsSma == <<"i", "n", "d", "i", "c", "a", "t", "o", "r", "s", ".", "s", "m", "a">>

\* an indicator or data feed object: no float() of it, no attributes modelled
Opaque == PyObject(EmptyMap)

\* the strategy object as the evaluator's path lookup sees it
StrategyObject ==
    PyObject((KeyIndicators :> PyDict(KeySma :> Opaque)) @@ (KeyDatas :> PyList(<<Opaque>>)))

\* BaseStrategy._get_indicator_value for the bar d
GetIndicatorValue(d) == d.sma

\* BaseStrategy._build_context for the bar d
BuildContext(d) ==
    LET context == (StrategyKey :> StrategyObject)
                   @@ (KeyOpen :> PyFloat(RatInt(d.close)))
                   @@ (KeyHigh :> PyFloat(RatInt(d.close)))
                   @@ (KeyLow :> PyFloat(RatInt(d.close)))
                   @@ (KeyClose :> PyFloat(RatInt(d.close)))
                   @@ (KeyVolume :> PyFloat(RatInt(1000)))
                   @@ (KeyDatas :> PyList(<<Opaque>>))
                   @@ (KeyTickers :> PyList(<<Opaque>>))
    IN  IF GetIndicatorValue(d) # None
        THEN (KeyIndicatorsSma :> PyFloat(RatInt(GetIndicatorValue(d)))) @@ context
        ELSE context

\* The evaluators are functions of the source and the context: what
\* ConditionEvaluator.evaluate gives for the conditions of the catalog,
\* ExpressionEvaluator.evaluate for the price expressions of its actions and
\* ConditionEvaluator.parse_expression for its condition strings, on each
\* bar of the model
ConditionResults ==
    [condition \in {t.condition : t \in TriggerCatalog} |->
        [d \in Bars |-> ConditionEvaluate(NoCache, condition, BuildContext(d))]]

PriceResults ==
    [expression \in {SrcSma} |->
        [d \in Bars |-> ExpressionEvaluate(NoCache, expression, BuildContext(d))]]

ParseResults ==
    [src \in {t.condition.src : t \in {c \in TriggerCatalog : c.condition.kind = "str"}} |->
        ParseExpression(NoCache, src, "ConditionParser")]

\* what test_condition returns for the evaluation r of the condition
Tested(st, r) == [val |-> r.ok /\ r.val, error |-> ~r.ok, st |-> st]

\* BaseStrategy.test_condition: [val, st]; an evaluation error is caught
\* and gives False (error tells the two apart)
TestCondition(st, condition, d) == Tested(st, ConditionResults[condition][d])

\* the signal check of _validate_action_parameters
Validated(params) == [ok |-> params.signal \in {"Long", "Short"}, params |-> params]

\* BaseStrategy._validate_action_parameters: [ok, params]
ValidateActionParameters(parameters) ==
    Validated(SetDefault(SetDefault(SetDefault(parameters, "ticker", "default"),
                                    "signal", "Long"), "orderType", "Market"))

\* BaseStrategy._get_ticker_data finds a feed
TickerFound(ticker) == ticker \in {"default", "tickers[0]"} \cup FeedNames

OrderTypes == {"Market", "Limit", "StopLimit", "StopTrail", "StopTrailLimit"}

\* BaseStrategy._track_order
TrackOrder(st, trigger_name, action_name, order) ==
    [st EXCEPT !.trigger_orders =
        Put(@, trigger_name,
            Put(IF trigger_name \in DOMAIN @ THEN @[trigger_name] ELSE EmptyDict,
                action_name, order))]

\* how many times the trigger has fired: the number of its entries in
\* executed_triggers.  The broker's book keeps it with each order, to tell
\* the execution sequences of a trigger apart.
Firings(st, trigger_name) ==
    Cardinality({i \in 1..Len(st.executed_triggers) :
                    st.executed_triggers[i].name = trigger_name})

\* the broker takes the order of the action
Placed(st, action, trigger_name, dt) ==
    [st EXCEPT !.orders =
        Append(@, [trigger |-> trigger_name, action |-> action, date |-> dt,
                   sequence |-> Firings(st, trigger_name), status |-> "Open"])]

\* execute_action after _validate_action_parameters gave v, with
\* _create_order, _build_order_parameters and _create_buy_order /
\* _create_sell_order
CreateOrder(st, action, trigger_name, accept, d, dt, v) ==
    IF ~v.ok \/ ~TickerFound(v.params.ticker)
    THEN [st |-> st, exc |-> TRUE, order |-> None]
    ELSE IF ~accept THEN [st |-> st, exc |-> FALSE, order |-> None]
    ELSE IF "price" \in DOMAIN v.params /\ ~PriceResults[v.params.price][d].ok
         THEN [st |-> st, exc |-> TRUE, order |-> None]
    ELSE IF v.params.orderType \notin OrderTypes
         THEN [st |-> st, exc |-> TRUE, order |-> None]
    ELSE [st |-> TrackOrder(Placed(st, action, trigger_name, dt), trigger_name,
                            action.name, Len(st.orders) + 1),
          exc |-> FALSE, order |-> Len(st.orders) + 1]

\* BaseStrategy.execute_action: [st, exc, order].  accept: the broker has
\* the cash (Long) or the position (Short) the order needs.
ExecuteAction(st, action, trigger_name, accept, d, dt) ==
    CreateOrder(st, action, trigger_name, accept, d, dt,
                ValidateActionParameters(action.parameters))

ActionNames(actions) == [i \in 1..Len(actions) |-> actions[i].name]

\* execute_trigger_actions marks the trigger active and executed
Begun(st, trigger, dt) ==
    [st EXCEPT !.active_triggers = @ \cup {trigger.name},
               !.executed_triggers = Append(@, [name |-> trigger.name, date |-> dt])]

\* execute_trigger_actions once its first action returned first: the
\* remaining actions are queued
Queued(trigger, first) ==
    IF first.exc THEN first
    ELSE IF Len(trigger.actions) > 1
         THEN [first EXCEPT !.st.pending_actions =
                  Put(@, trigger.name, ActionNames(Tail(trigger.actions)))]
    ELSE first

\* the second action submitted as soon as the first returned
QueuedAtOnce(trigger, accept, d, dt, first) ==
    IF first.exc \/ Len(trigger.actions) = 1 THEN first
    ELSE [first EXCEPT !.st =
             [ExecuteAction(first.st, trigger.actions[2], trigger.name, accept, d, dt).st
                 EXCEPT !.pending_actions =
                     Put(@, trigger.name, ActionNames(Tail(trigger.actions)))]]

\* execute_trigger_actions submitting the second action with the first
ExecuteTriggerActionsAtOnce(st, trigger, accept, d, dt) ==
    QueuedAtOnce(trigger, accept, d, dt,
                 ExecuteAction(Begun(st, trigger, dt), trigger.actions[1], trigger.name,
                               accept, d, dt))

\* BaseStrategy.execute_trigger_actions: [st, exc, order]
ExecuteTriggerActions(st, trigger, accept, d, dt) ==
    Queued(trigger, ExecuteAction(Begun(st, trigger, dt), trigger.actions[1],
                                  trigger.name, accept, d, dt))

RECURSIVE NextLoop(_, _, _, _, _, _, _)

\* next without the try/except around one trigger: an order execution
\* error ends the loop
NextFiredAborting(trigs, k, accept, d, dt, outcome, fired) ==
    IF fired.exc
    THEN [st |-> fired.st, outcome |-> Put(outcome, trigs[k].name, "raised")]
    ELSE NextLoop(fired.st, trigs, k + 1, accept, d, dt,
                  Put(outcome, trigs[k].name,
                      IF fired.order = None THEN "no order" ELSE "order"))

\* the try/except of next around execute_trigger_actions, which returned
\* fired: an OrderExecutionError is logged and the loop goes on
NextFired(trigs, k, accept, d, dt, outcome, fired) ==
    NextLoop(fired.st, trigs, k + 1, accept, d, dt,
             Put(outcome, trigs[k].name,
                 IF fired.exc THEN "raised"
                 ELSE IF fired.order = None THEN "no order"
                 ELSE "order"))

\* next after test_condition returned test for the k-th trigger
NextTested(st, trigs, k, accept, d, dt, outcome, test) ==
    IF ~test.val
    THEN NextLoop(test.st, trigs, k + 1, accept, d, dt,
                  Put(outcome, trigs[k].name, IF test.error THEN "error" ELSE "false"))
    ELSE NextFired(trigs, k, accept, d, dt, outcome,
                   ExecuteTriggerActions(test.st, trigs[k], accept[k], d, dt))

\* the loop of next without the check of active_triggers
NextLoopRefiring(st, trigs, k, accept, d, dt, outcome) ==
    IF k > Len(trigs) THEN [st |-> st, outcome |-> outcome]
    ELSE IF ~trigs[k].enabled
         THEN NextLoop(st, trigs, k + 1, accept, d, dt,
                       Put(outcome, trigs[k].name, "disabled"))
    ELSE NextTested(st, trigs, k, accept, d, dt, outcome,
                    TestCondition(st, trigs[k].condition, d))

\* the loop of BaseStrategy.next over the triggers from index k on:
\* [st, outcome], outcome[name] telling what the bar did with each trigger
NextLoop(st, trigs, k, accept, d, dt, outcome) ==
    IF k > Len(trigs) THEN [st |-> st, outcome |-> outcome]
    ELSE IF ~trigs[k].enabled
         THEN NextLoop(st, trigs, k + 1, accept, d, dt,
                       Put(outcome, trigs[k].name, "disabled"))
    ELSE IF trigs[k].name \in st.active_triggers
         THEN NextLoop(st, trigs, k + 1, accept, d, dt,
                       Put(outcome, trigs[k].name, "active"))
    ELSE NextTested(st, trigs, k, accept, d, dt, outcome,
                    TestCondition(st, trigs[k].condition, d))

\* BaseStrategy._find_order_trigger: the (trigger, action name) pairs that
\* hold the order (the first one found is returned)
FindOrderTrigger(st, order) ==
    {<<t, a>> \in UNION {{t} \X DOMAIN st.trigger_orders[t] : t \in DOMAIN st.trigger_orders} :
        st.trigger_orders[t][a] = order}

\* TriggerSystem.triggers.get(trigger_name): the indices holding the name
TriggerIndex(trigs, trigger_name) == {i \in 1..Len(trigs) : trigs[i].name = trigger_name}

\* next((a for a in trigger.actions if a.name == name), None): [found, action]
FindAction(actions, name) ==
    LET hits == {i \in 1..Len(actions) : actions[i].name = name}
    IN  IF hits = {} THEN [found |-> FALSE, action |-> Buy]
        ELSE [found |-> TRUE, action |-> actions[CHOOSE i \in hits : \A j \in hits : i <= j]]

\* _process_next_action leaving the handle of the completed action recorded
ProcessNextActionKeepingHandle(st, trigs, trigger_name, completed_action, accept, d, dt) ==
    LET queue == st.pending_actions[trigger_name]
        popped == [st EXCEPT !.pending_actions[trigger_name] = Tail(@)]
        idx == TriggerIndex(trigs, trigger_name)
        trigger == trigs[CHOOSE i \in idx : TRUE]
        next_action == FindAction(trigger.actions, Head(queue))
    IN  IF trigger_name \in DOMAIN st.pending_actions /\ queue # <<>>
        THEN IF idx # {} /\ next_action.found
             THEN ExecuteAction(popped, next_action.action, trigger_name, accept, d, dt)
             ELSE [st |-> popped, exc |-> FALSE, order |-> None]
        ELSE [st |-> [st EXCEPT !.active_triggers = @ \ {trigger_name}],
              exc |-> FALSE, order |-> None]

\* BaseStrategy._process_next_action: [st, exc, order]
ProcessNextAction(st, trigs, trigger_name, completed_action, accept, d, dt) ==
    LET cleared == IF trigger_name \in DOMAIN st.trigger_orders
                      /\ completed_action \in DOMAIN st.trigger_orders[trigger_name]
                   THEN [st EXCEPT !.trigger_orders[trigger_name][completed_action] = None]
                   ELSE st
        queue == cleared.pending_actions[trigger_name]
        popped == [cleared EXCEPT !.pending_actions[trigger_name] = Tail(@)]
        idx == TriggerIndex(trigs, trigger_name)
        trigger == trigs[CHOOSE i \in idx : TRUE]
        next_action == FindAction(trigger.actions, Head(queue))
    IN  IF trigger_name \in DOMAIN cleared.pending_actions /\ queue # <<>>
        THEN IF idx # {} /\ next_action.found
             THEN ExecuteAction(popped, next_action.action, trigger_name, accept, d, dt)
             ELSE [st |-> popped, exc |-> FALSE, order |-> None]
        ELSE [st |-> [cleared EXCEPT !.active_triggers = @ \ {trigger_name}],
              exc |-> FALSE, order |-> None]

\* _cleanup_failed_trigger leaving the pending queue in place
CleanupKeepingQueue(st, trigger_name) ==
    [st EXCEPT !.active_triggers = @ \ {trigger_name},
               !.trigger_orders =
                   IF trigger_name \in DOMAIN @
                   THEN [@ EXCEPT ![trigger_name] = [a \in DOMAIN @ |-> None]]
                   ELSE @]

\* _cleanup_failed_trigger leaving the trigger in active_triggers
CleanupKeepingActive(st, trigger_name) ==
    [st EXCEPT !.pending_actions = Pop(@, trigger_name),
               !.trigger_orders =
                   IF trigger_name \in DOMAIN @
                   THEN [@ EXCEPT ![trigger_name] = [a \in DOMAIN @ |-> None]]
                   ELSE @]

\* BaseStrategy._cleanup_failed_trigger
CleanupFailedTrigger(st, trigger_name) ==
    [st EXCEPT !.pending_actions = Pop(@, trigger_name),
               !.active_triggers = @ \ {trigger_name},
               !.trigger_orders =
                   IF trigger_name \in DOMAIN @
                   THEN [@ EXCEPT ![trigger_name] = [a \in DOMAIN @ |-> None]]
                   ELSE @]

FailedStatuses == {"Canceled", "Margin", "Rejected", "Expired"}

Statuses == {"Submitted", "Accepted", "Partial", "Completed"} \cup FailedStatuses

\* notify_order taking the trigger of an order from the order itself, not
\* from the handles recorded in trigger_orders
NotifyOrderByTrigger(st, trigs, order, status, accept, d, dt) ==
    IF status = "Completed"
    THEN ProcessNextAction(st, trigs, st.orders[order].trigger,
                           st.orders[order].action.name, accept, d, dt)
    ELSE IF status \in FailedStatuses
         THEN [st |-> CleanupFailedTrigger(st, st.orders[order].trigger),
               exc |-> FALSE, order |-> None]
    ELSE [st |-> st, exc |-> FALSE, order |-> None]

\* BaseStrategy.notify_order with _handle_completed_order and
\* _handle_failed_order: [st, exc, order]
NotifyOrder(st, trigs, order, status, accept, d, dt) ==
    LET found == FindOrderTrigger(st, order)
        trigger_info == CHOOSE pair \in found : TRUE
    IN  IF status = "Completed" /\ found # {}
        THEN ProcessNextAction(st, trigs, trigger_info[1], trigger_info[2], accept, d, dt)
        ELSE IF status \in FailedStatuses /\ found # {}
             THEN [st |-> CleanupFailedTrigger(st, trigger_info[1]),
                   exc |-> FALSE, order |-> None]
        ELSE [st |-> st, exc |-> FALSE, order |-> None]

(***************************************************************************)
(* The calls made on a strategy and its trigger system                     *)
(***************************************************************************)
max_triggers == 2

NoOutcome == [k \in {} |-> "none"]

\* what the last call was and how it came back: the trigger name it was
\* given (None for the calls without one), the exception that left it (""
\* for none), the value returned, and for next what the bar did with each
\* registered trigger
Returned(op, arg, exc, ret, outcome) ==
    [op |-> op, arg |-> arg, exc |-> exc, ret |-> ret, outcome |-> outcome]

Registered == {triggers[i].name : i \in 1..Len(triggers)}

Strategy ==
    [trigger_orders |-> trigger_orders, pending_actions |-> pending_actions,
     active_triggers |-> active_triggers, executed_triggers |-> executed_triggers,
     orders |-> orders]

\* the strategy's fields and the broker's orders become those of st
Becomes(st) ==
    /\ trigger_orders' = st.trigger_orders
    /\ pending_actions' = st.pending_actions
    /\ active_triggers' = st.active_triggers
    /\ executed_triggers' = st.executed_triggers
    /\ orders' = st.orders

strategy_vars == <<trigger_orders, pending_actions, active_triggers, executed_triggers,
                   orders, date, data>>

\* the evaluator that is driven on its own
evaluator_vars == <<evaluator, cache, source, reference, answer>>

\* the job manager of the server
job_vars == <<jobs, creating, threads, clock>>

\* TriggerSystem.add_trigger: the exception it raises ("" for none) and
\* the registry it leaves
AddTrigger(trigs, trigger) ==
    IF Len(trigs) >= max_triggers
    THEN [exc |-> "TriggerSystemError", triggers |-> trigs]
    ELSE IF trigger.name \in {trigs[i].name : i \in 1..Len(trigs)}
         THEN [exc |-> "TriggerValidationError", triggers |-> trigs]
    ELSE IF trigger.condition.kind = "str" /\ ~ParseResults[trigger.condition.src].ok
         THEN [exc |-> "TriggerValidationError", triggers |-> trigs]
    ELSE [exc |-> "", triggers |-> Append(trigs, trigger)]

add_trigger(trigger) ==
    \E r \in {AddTrigger(triggers, trigger)} :
        /\ triggers' = r.triggers
        /\ last' = Returned("add_trigger", trigger.name, r.exc, None, NoOutcome)
        /\ UNCHANGED <<strategy_vars, evaluator_vars, job_vars>>

\* TriggerSystem.remove_trigger
RemoveTrigger(trigs, trigger_name) ==
    LET idx == TriggerIndex(trigs, trigger_name)
    IN  IF idx # {} THEN [ret |-> TRUE, triggers |-> RemoveAt(trigs, CHOOSE i \in idx : TRUE)]
        ELSE [ret |-> FALSE, triggers |-> trigs]

remove_trigger(trigger_name) ==
    \E r \in {RemoveTrigger(triggers, trigger_name)} :
        /\ triggers' = r.triggers
        /\ last' = Returned("remove_trigger", trigger_name, "", r.ret, NoOutcome)
        /\ UNCHANGED <<strategy_vars, evaluator_vars, job_vars>>

\* TriggerSystem.validate_condition: the list of validation errors
ValidateCondition(condition) ==
    IF ParseResults[condition].ok THEN <<>> ELSE <<"Failed to parse condition">>

validate_condition(condition) ==
    /\ last' = Returned("validate_condition", None, "", ValidateCondition(condition),
                        NoOutcome)
    /\ UNCHANGED <<triggers, strategy_vars, evaluator_vars, job_vars>>

\* enable_trigger / disable_trigger setting the flag of every trigger
SetEnabledOfAll(trigs, trigger_name, enabled) ==
    IF TriggerIndex(trigs, trigger_name) # {}
    THEN [ret |-> TRUE,
          triggers |-> [i \in 1..Len(trigs) |-> [trigs[i] EXCEPT !.enabled = enabled]]]
    ELSE [ret |-> FALSE, triggers |-> trigs]

\* TriggerSystem.enable_trigger (enabled = TRUE) and disable_trigger (FALSE)
SetEnabled(trigs, trigger_name, enabled) ==
    LET idx == TriggerIndex(trigs, trigger_name)
    IN  IF idx # {}
        THEN [ret |-> TRUE,
              triggers |-> [trigs EXCEPT ![CHOOSE i \in idx : TRUE].enabled = enabled]]
        ELSE [ret |-> FALSE, triggers |-> trigs]

enable_trigger(trigger_name) ==
    \E r \in {SetEnabled(triggers, trigger_name, TRUE)} :
        /\ triggers' = r.triggers
        /\ last' = Returned("enable_trigger", trigger_name, "", r.ret, NoOutcome)
        /\ UNCHANGED <<strategy_vars, evaluator_vars, job_vars>>

disable_trigger(trigger_name) ==
    \E r \in {SetEnabled(triggers, trigger_name, FALSE)} :
        /\ triggers' = r.triggers
        /\ last' = Returned("disable_trigger", trigger_name, "", r.ret, NoOutcome)
        /\ UNCHANGED <<strategy_vars, evaluator_vars, job_vars>>

\* the external engine moves to the next bar and calls BaseStrategy.next;
\* accept[k]: the broker can take an order of the k-th trigger on this bar
next(close, sma, accept) ==
    /\ date < MaxBars
    /\ date' = date + 1
    /\ data' = [close |-> close, sma |-> sma]
    /\ \E r \in {NextLoop(Strategy, triggers, 1, accept, [close |-> close, sma |-> sma],
                          date + 1, NoOutcome)} :
          /\ Becomes(r.st)
          /\ last' = Returned("next", None, "", None, r.outcome)
    /\ UNCHANGED <<triggers, evaluator_vars, job_vars>>

\* the status the broker's books keep for the order: its first final one
Booked(book, order, status) ==
    IF book[order].status = "Open" /\ status \in {"Completed"} \cup FailedStatuses
    THEN [book EXCEPT ![order].status = IF status = "Completed" THEN "Completed" ELSE "Failed"]
    ELSE book

\* the external engine calls BaseStrategy.notify_order
notify_order(order, status, accept) ==
    \E r \in {NotifyOrder([Strategy EXCEPT !.orders = Booked(@, order, status)],
                          triggers, order, status, accept, data, date)} :
        /\ Becomes(r.st)
        /\ last' = Returned("notify_order", None,
                            IF r.exc THEN "OrderExecutionError" ELSE "", None, NoOutcome)
        /\ UNCHANGED <<triggers, date, data, evaluator_vars, job_vars>>

\* an evaluator after construction, before any call
NoAnswer == [op |-> "__init__"]

Constructed(cls) ==
    /\ evaluator = cls
    /\ cache = NoCache
    /\ answer = NoAnswer

\* TriggerSystem and BaseStrategy after construction
StrategyInit ==
    /\ triggers = <<>>
    /\ trigger_orders = EmptyDict
    /\ pending_actions = EmptyDict
    /\ active_triggers = {}
    /\ executed_triggers = <<>>
    /\ orders = <<>>
    /\ date = 0
    /\ data = [close |-> 50, sma |-> None]
    /\ last = Returned("__init__", None, "", None, NoOutcome)

\* JobManager.__init__: no job, no call of create_job under way, no worker
JobManagerInit ==
    /\ jobs = <<>>
    /\ creating = {}
    /\ threads = EmptyDict
    /\ clock = 0

\* no expression string has been written
Unwritten ==
    /\ source = <<>>
    /\ reference = [tree |-> NoNode, grouping |-> "none"]

Init ==
    /\ StrategyInit
    /\ JobManagerInit
    /\ Constructed("ConditionParser")
    /\ Unwritten

\* The registry is filled before the first bar (the factory registers the
\* configured triggers when the strategy is built) and conditions are
\* validated then; triggers are removed, enabled and disabled at any time.
Next ==
    \/ \E trigger \in TriggerCatalog : date = 0 /\ add_trigger(trigger)
    \/ \E name \in TriggerNames : remove_trigger(name)
    \/ \E condition \in DOMAIN ParseResults : date = 0 /\ validate_condition(condition)
    \/ \E name \in TriggerNames : enable_trigger(name)
    \/ \E name \in TriggerNames : disable_trigger(name)
    \/ \E close \in Closes, sma \in SmaValues, accept \in [1..Len(triggers) -> BOOLEAN] :
          next(close, sma, accept)
    \/ \E order \in 1..Len(orders), status \in Statuses :
          \* the broker is asked for a new order only on a completion
          \E accept \in IF status = "Completed" THEN BOOLEAN ELSE {TRUE} :
             notify_order(order, status, accept)

Spec == Init /\ [][Next]_vars

(***************************************************************************)
(* Vocabulary of the properties                                            *)
(***************************************************************************)
\* the trigger registered under the name
TriggerNamed(name) == triggers[CHOOSE i \in TriggerIndex(triggers, name) : TRUE]

\* the pending queue of the trigger in the dict pa, empty when it has none
Queue(pa, name) == IF name \in DOMAIN pa THEN pa[name] ELSE <<>>

\* the order handles recorded for the trigger in the dict to
Handles(to, name) ==
    IF name \in DOMAIN to THEN {to[name][a] : a \in DOMAIN to[name]} \ {None} ELSE {}

\* the trigger is Idle / Active
Idle(name) == name \notin active_triggers
Active(name) == name \in active_triggers

\* the trigger's condition is true on the bar d
ConditionTrue(name, d) ==
    LET r == ConditionResults[TriggerNamed(name).condition][d]
    IN  r.ok /\ r.val

\* in this step: the entries the step appends to executed_triggers, the
\* triggers it fires and the orders it places
NewFirings == (Len(executed_triggers) + 1)..Len(executed_triggers')
Fires(name) == \E i \in NewFirings : executed_triggers'[i].name = name
NewOrders == (Len(orders) + 1)..Len(orders')
NewOrdersOf(name) == {o \in NewOrders : orders'[o].trigger = name}

(***************************************************************************)
(* C1                                                                      *)
(***************************************************************************)
\* C1: a step fires only triggers that were enabled and Idle before it, and
\* fires a trigger at most once: a trigger in the active set is not fired
\* again before it has left the set, whatever its condition.
C1_FiresOnlyEnabledIdle ==
    [][/\ \A i \in NewFirings :
            LET name == executed_triggers'[i].name
            IN  /\ name \in Registered
                /\ TriggerNamed(name).enabled
                /\ Idle(name)
                /\ last'.op = "next"
       /\ \A i, j \in NewFirings :
            executed_triggers'[i].name = executed_triggers'[j].name => i = j
       /\ Len(executed_triggers') >= Len(executed_triggers)]_vars

\* a bar was evaluated on which an enabled trigger whose condition is true
\* was skipped because it was Active
C1_Witness ==
    /\ last.op = "next"
    /\ \E name \in Registered :
          /\ last.outcome[name] = "active"
          /\ TriggerNamed(name).enabled
          /\ ConditionTrue(name, data)
          /\ Active(name)


(***************************************************************************)
(* C2                                                                      *)
(***************************************************************************)
\* no run of MaxBars bars places more orders than this: on a bar each
\* registered name fires at most once, and a sequence places at most one
\* order for each action
LongestSequence ==
    CHOOSE n \in {Len(t.actions) : t \in TriggerCatalog} :
        \A t \in TriggerCatalog : Len(t.actions) <= n
MaxOrders == MaxBars * Cardinality(TriggerNames) * LongestSequence

FinalStatuses == {"Completed"} \cup FailedStatuses

\* the external engine delivers a completed or failed notification for an
\* order that has had none
Deliver(order) ==
    /\ order \in 1..Len(orders)
    /\ orders[order].status = "Open"
    /\ \E status \in FinalStatuses, accept \in BOOLEAN : notify_order(order, status, accept)

\* the engine eventually delivers a final notification for every order it
\* returned a handle for
FairSpec == Init /\ [][Next]_vars /\ \A order \in 1..MaxOrders : WF_vars(Deliver(order))

\* C2: when every order handle eventually gets its completed or failed
\* notification, every trigger that becomes Active eventually is Idle again,
\* also when a submission returned no handle.
C2_ActiveReturnsIdle == \A name \in TriggerNames : Active(name) ~> Idle(name)


(***************************************************************************)
(* C3                                                                      *)
(***************************************************************************)
\* C3: when the submission of the first action of a firing trigger raised
\* inside the per-bar loop, the trigger is Idle when the per-bar call
\* returns, with an empty pending queue and no recorded handle.
C3_RaisedFirstActionAborts ==
    last.op = "next" =>
        \A name \in DOMAIN last.outcome :
            last.outcome[name] = "raised" =>
                /\ Idle(name)
                /\ Queue(pending_actions, name) = <<>>
                /\ Handles(trigger_orders, name) = {}

(***************************************************************************)
(* C4                                                                      *)
(***************************************************************************)
\* the order placed before o in the same execution sequence of o's trigger
\* (None when o is the first of its sequence), in the book
Preceding(book, o) ==
    LET before == {p \in 1..(o - 1) : /\ book[p].trigger = book[o].trigger
                                      /\ book[p].sequence = book[o].sequence}
    IN  IF before = {} THEN None ELSE CHOOSE p \in before : \A q \in before : q <= p

\* every order the step places that is not the first of its sequence comes
\* after the completion notification of the preceding order of the sequence
LaterOrdersFollowCompletion ==
    \A o \in NewOrders :
        \/ /\ Fires(orders'[o].trigger)
           /\ Preceding(orders', o) = None
        \/ /\ ~Fires(orders'[o].trigger)
           /\ Preceding(orders', o) # None
           /\ orders'[Preceding(orders', o)].status = "Completed"
           /\ last'.op = "notify_order"

\* C4 as stated: on the bar where a trigger fires exactly one order is
\* submitted for it, for its first declared action, and the names of the
\* remaining actions are queued in declared order; a later action is
\* submitted only after the completion notification of the preceding order.
C4_ExactlyOneOrderOnFiring ==
    [][/\ \A name \in Registered :
            Fires(name) =>
                /\ \E o \in NewOrders :
                      /\ NewOrdersOf(name) = {o}
                      /\ orders'[o].action = TriggerNamed(name).actions[1]
                /\ Queue(pending_actions', name) =
                       ActionNames(Tail(TriggerNamed(name).actions))
       /\ LaterOrdersFollowCompletion]_vars

\* C4 amended: on the bar where a trigger fires at most one order is
\* submitted for it: exactly one, for its first declared action, when the
\* submission returns a handle, and none when it returns no handle or
\* raises.  The names of the remaining actions are queued in declared order
\* unless the submission raised; then nothing is queued.  A later action is
\* submitted only after the completion notification of the preceding order.
C4_AtMostOneOrderOnFiring ==
    [][/\ \A name \in Registered :
            Fires(name) =>
                LET outcome == last'.outcome[name]
                    first == TriggerNamed(name).actions[1]
                    rest == ActionNames(Tail(TriggerNamed(name).actions))
                IN  /\ outcome \in {"order", "no order", "raised"}
                    /\ outcome = "order" =>
                          \E o \in NewOrders : /\ NewOrdersOf(name) = {o}
                                               /\ orders'[o].action = first
                                               /\ Handles(trigger_orders', name) = {o}
                    /\ outcome # "order" => NewOrdersOf(name) = {}
                    /\ outcome # "raised" => Queue(pending_actions', name) = rest
                    /\ outcome = "raised" => Queue(pending_actions', name) = <<>>
       /\ LaterOrdersFollowCompletion]_vars

\* the second action of a sequence was submitted on the completion of the
\* order of the first, the third action still queued
C4_Witness ==
    /\ last.op = "notify_order"
    /\ \E name \in Registered :
          LET actions == TriggerNamed(name).actions
          IN  /\ Len(actions) = 3
              /\ Len(orders) = 2
              /\ orders[1].trigger = name /\ orders[1].action = actions[1]
              /\ orders[1].status = "Completed"
              /\ orders[2].trigger = name /\ orders[2].action = actions[2]
              /\ orders[2].sequence = orders[1].sequence
              /\ orders[2].status = "Open"
              /\ Queue(pending_actions, name) = <<actions[3].name>>

(***************************************************************************)
(* C5                                                                      *)
(***************************************************************************)
\* the orders of the trigger's latest execution sequence in the book, in
\* the order they were placed
RECURSIVE SequenceOrders(_, _, _, _)
SequenceOrders(book, name, sequence, o) ==
    IF o > Len(book) THEN <<>>
    ELSE IF book[o].trigger = name /\ book[o].sequence = sequence
         THEN <<o>> \o SequenceOrders(book, name, sequence, o + 1)
         ELSE SequenceOrders(book, name, sequence, o + 1)

\* the step delivers the completion notification of the tracked order o:
\* the first final notification of an order finds its handle recorded
CompletionOf(o) == orders[o].status = "Open" /\ orders'[o].status = "Completed"

\* C5: on the completion notification of a tracked order its handle is
\* cleared; when the trigger's queue is not empty its head is popped and the
\* action of the trigger it names is submitted with its handle recorded,
\* otherwise the trigger is Idle.  And once every order of a sequence has
\* completed, its orders are those of the declared actions, one each, in
\* declared order, and the trigger is Idle.
C5_CompletionAdvances ==
    [][/\ \A o \in 1..Len(orders) :
            CompletionOf(o) =>
                LET name == orders[o].trigger
                    queue == Queue(pending_actions, name)
                IN  /\ o \notin Handles(trigger_orders', name)
                    /\ queue # <<>> =>
                          /\ Queue(pending_actions', name) = Tail(queue)
                          /\ \E n \in NewOrders :
                                /\ NewOrdersOf(name) = {n}
                                /\ orders'[n].action.name = Head(queue)
                                /\ Handles(trigger_orders', name) = {n}
                    /\ queue = <<>> => name \notin active_triggers'
       /\ \A name \in Registered :
            LET mine == SequenceOrders(orders', name,
                                       Firings([executed_triggers |-> executed_triggers'], name), 1)
            IN  (mine # <<>> /\ \A i \in 1..Len(mine) : orders'[mine[i]].status = "Completed")
                    => /\ [i \in 1..Len(mine) |-> orders'[mine[i]].action]
                              = TriggerNamed(name).actions
                       /\ name \notin active_triggers']_vars

(***************************************************************************)
(* C6                                                                      *)
(***************************************************************************)
\* the step delivers a failure notification (canceled, margin, rejected or
\* expired) of the tracked order o
FailureOf(o) == orders[o].status = "Open" /\ orders'[o].status = "Failed"

\* the execution state the strategy keeps for the trigger, in the fields f
ExecutionState(f, name) ==
    [active |-> name \in f.active_triggers,
     queued |-> name \in DOMAIN f.pending_actions,
     queue |-> Queue(f.pending_actions, name),
     tracked |-> name \in DOMAIN f.trigger_orders,
     handles |-> IF name \in DOMAIN f.trigger_orders THEN f.trigger_orders[name] ELSE EmptyDict]

StrategyAfter ==
    [trigger_orders |-> trigger_orders', pending_actions |-> pending_actions',
     active_triggers |-> active_triggers', executed_triggers |-> executed_triggers',
     orders |-> orders']

\* C6: a failure notification of a tracked order clears the trigger's queue
\* and all its handles and leaves it Idle, places no order and leaves the
\* execution state of every other trigger as it was; and no order is ever
\* placed after a failed one in the same sequence.
C6_FailureAbandonsSequence ==
    /\ [][\A o \in 1..Len(orders) :
            FailureOf(o) =>
                LET name == orders[o].trigger
                IN  /\ name \notin DOMAIN pending_actions'
                    /\ Handles(trigger_orders', name) = {}
                    /\ name \notin active_triggers'
                    /\ NewOrders = {}
                    /\ NewFirings = {}
                    /\ \A other \in TriggerNames \ {name} :
                          ExecutionState(StrategyAfter, other) = ExecutionState(Strategy, other)]_vars
    /\ [](\A o \in 1..Len(orders) :
            orders[o].status = "Failed" =>
                \A later \in (o + 1)..Len(orders) : Preceding(orders, later) # o)

\* the second order of a sequence failed with an action still queued, while
\* another trigger is in the middle of its own sequence
C6_Witness ==
    /\ last.op = "notify_order"
    /\ \E o \in 1..Len(orders) :
          LET name == orders[o].trigger
          IN  /\ orders[o].status = "Failed"
              /\ Preceding(orders, o) # None
              /\ Len(TriggerNamed(name).actions) = 3
              /\ Idle(name)
              /\ Queue(pending_actions, name) = <<>>
              /\ \E other \in Registered \ {name} :
                    /\ Active(other)
                    /\ Handles(trigger_orders, other) # {}
                    /\ Queue(pending_actions, other) # <<>>

(***************************************************************************)
(* C7                                                                      *)
(***************************************************************************)
\* the evaluation of the trigger's condition on the bar d fails
ConditionFails(name, d) ==
    ~ConditionResults[TriggerNamed(name).condition][d].ok

\* C7: in a per-bar call every registered trigger is dealt with; a trigger
\* whose condition fails to evaluate or whose submission raises gets no
\* order; every enabled Idle trigger whose condition is true on the bar
\* fires, whatever happened to the others; and the call does not raise.
C7_ErrorsStayWithTheirTrigger ==
    [][last'.op = "next" =>
          /\ last'.exc = ""
          /\ DOMAIN last'.outcome = Registered
          /\ \A name \in Registered :
                /\ (ConditionFails(name, data') /\ TriggerNamed(name).enabled /\ Idle(name))
                       => last'.outcome[name] = "error"
                /\ last'.outcome[name] \in {"error", "raised"} => NewOrdersOf(name) = {}
                /\ last'.outcome[name] = "error" => ~Fires(name)
                /\ (TriggerNamed(name).enabled /\ Idle(name) /\ ConditionTrue(name, data'))
                       => Fires(name)]_vars

\* a bar on which the submission for the first trigger raised and the
\* second trigger fired and got its order
C7_Witness ==
    /\ last.op = "next"
    /\ Len(triggers) = 2
    /\ last.outcome[triggers[1].name] = "raised"
    /\ last.outcome[triggers[2].name] = "order"
    /\ \E o \in 1..Len(orders) : orders[o].trigger = triggers[2].name /\ orders[o].date = date

\* a bar on which the condition of the first trigger failed to evaluate and
\* the second trigger fired
C7_WitnessEvaluationError ==
    /\ last.op = "next"
    /\ Len(triggers) = 2
    /\ last.outcome[triggers[1].name] = "error"
    /\ ConditionFails(triggers[1].name, data)
    /\ last.outcome[triggers[2].name] = "order"

(***************************************************************************)
(* C8                                                                      *)
(***************************************************************************)
\* the latest execution sequence of the trigger was aborted by a failed
\* order: the last order placed in it failed
AbortedByFailure(name) ==
    LET mine == SequenceOrders(orders, name, Firings(Strategy, name), 1)
    IN  mine # <<>> /\ orders[mine[Len(mine)]].status = "Failed"

\* the per-bar call of this step finds the trigger enabled with a true
\* condition
BarCallsFor(name) ==
    last'.op = "next" /\ TriggerNamed(name).enabled /\ ConditionTrue(name, data')

\* C8 as stated: after a sequence was aborted by a failed order the trigger
\* fires again on the next bar whose condition is true: its first declared
\* action is submitted and the queue holds the remaining actions in declared
\* order, with nothing left over from the aborted sequence.
C8_RefiresWithFirstOrder ==
    [][\A name \in Registered :
          (AbortedByFailure(name) /\ BarCallsFor(name)) =>
              /\ Fires(name)
              /\ \E o \in NewOrders :
                    /\ NewOrdersOf(name) = {o}
                    /\ orders'[o].action = TriggerNamed(name).actions[1]
                    /\ Handles(trigger_orders', name) = {o}
              /\ Queue(pending_actions', name) =
                     ActionNames(Tail(TriggerNamed(name).actions))]_vars

\* C8 amended: after a sequence was aborted by a failed order the trigger
\* is Idle with an empty queue and no handle, and it fires again on the next
\* bar on which it is enabled and its condition is true, as a fresh
\* sequence: one order, for the first declared action, is placed and is the
\* only handle when the submission returns a handle, and none otherwise; the
\* queue holds the remaining actions in declared order unless the submission
\* raised, and then it is empty.
C8_RefiresAsFreshSequence ==
    [][\A name \in Registered :
          AbortedByFailure(name) =>
              /\ Idle(name)
              /\ Queue(pending_actions, name) = <<>>
              /\ Handles(trigger_orders, name) = {}
              /\ BarCallsFor(name) =>
                    LET outcome == last'.outcome[name]
                        rest == ActionNames(Tail(TriggerNamed(name).actions))
                    IN  /\ Fires(name)
                        /\ name \in active_triggers'
                        /\ outcome = "order" =>
                              \E o \in NewOrders :
                                 /\ NewOrdersOf(name) = {o}
                                 /\ orders'[o].action = TriggerNamed(name).actions[1]
                                 /\ Preceding(orders', o) = None
                                 /\ Handles(trigger_orders', name) = {o}
                        /\ outcome # "order" =>
                              NewOrdersOf(name) = {} /\ Handles(trigger_orders', name) = {}
                        /\ outcome # "raised" => Queue(pending_actions', name) = rest
                        /\ outcome = "raised" => Queue(pending_actions', name) = <<>>]_vars

\* a trigger whose first sequence was aborted by the failure of its second
\* order has fired again: the first action's order of the second sequence is
\* its only handle and the queue holds the two remaining names
C8_Witness ==
    /\ last.op = "next"
    /\ \E name \in Registered :
          LET actions == TriggerNamed(name).actions
          IN  /\ Len(actions) = 3
              /\ Len(orders) = 3
              /\ \A o \in 1..3 : orders[o].trigger = name
              /\ orders[1].status = "Completed" /\ orders[1].sequence = 1
              /\ orders[2].status = "Failed" /\ orders[2].sequence = 1
              /\ orders[3].status = "Open" /\ orders[3].sequence = 2
              /\ orders[3].action = actions[1]
              /\ Handles(trigger_orders, name) = {3}
              /\ Queue(pending_actions, name) = <<actions[2].name, actions[3].name>>
              /\ last.outcome[name] = "order"

(***************************************************************************)
(* C9                                                                      *)
(***************************************************************************)
\* C9: add_trigger with a name that is already registered fails with
\* TriggerValidationError and leaves the registry as it was: the trigger
\* registered under the name, its condition, actions and enabled flag.
C9_DuplicateNameRejected ==
    [][(last'.op = "add_trigger" /\ last'.arg \in Registered) =>
          /\ last'.exc = "TriggerValidationError"
          /\ triggers' = triggers]_vars

(***************************************************************************)
(* C10                                                                     *)
(***************************************************************************)
\* the source string is one parse_expression of the condition evaluator
\* fails on
Unparseable(src) == ~ParseResults[src].ok

\* C10: add_trigger rejects every trigger whose condition string fails to
\* tokenize or parse, with TriggerValidationError and without registering
\* it; every string condition in the registry parses; and no per-bar
\* evaluation of a registered trigger fails on a condition that does not
\* parse.
C10_UnparseableConditionRejected ==
    /\ \A trigger \in TriggerCatalog :
          (trigger.condition.kind = "str" /\ Unparseable(trigger.condition.src)) =>
              AddTrigger(triggers, trigger) =
                  [exc |-> "TriggerValidationError", triggers |-> triggers]
    /\ \A i \in 1..Len(triggers) :
          triggers[i].condition.kind = "str" => ~Unparseable(triggers[i].condition.src)
    /\ last.op = "next" =>
          \A name \in Registered :
              (last.outcome[name] = "error" /\ TriggerNamed(name).condition.kind = "str")
                  => ~Unparseable(TriggerNamed(name).condition.src)

(***************************************************************************)
(* C11                                                                     *)
(***************************************************************************)
\* the registry never holds more than max_triggers triggers
RegistryWithinCapacity == Len(triggers) <= max_triggers

\* C11: add_trigger on a registry that holds max_triggers triggers fails
\* with TriggerValidationError and leaves the registry as it was, and the
\* registry never holds more than max_triggers triggers.
C11_FullRegistryRejects ==
    /\ [][(last'.op = "add_trigger" /\ Len(triggers) >= max_triggers) =>
             /\ last'.exc = "TriggerValidationError"
             /\ triggers' = triggers]_vars
    /\ []RegistryWithinCapacity

(***************************************************************************)
(* C12                                                                     *)
(***************************************************************************)
\* the registry without the trigger of the name, the others in their order
Without(trigs, name) ==
    LET Other(trigger) == trigger.name # name
    IN  SelectSeq(trigs, Other)

\* the registry with the flag of the trigger of the name set, nothing else
WithFlag(trigs, name, enabled) ==
    [i \in 1..Len(trigs) |->
        IF trigs[i].name = name THEN [trigs[i] EXCEPT !.enabled = enabled] ELSE trigs[i]]

RegistryCalls == {"enable_trigger", "disable_trigger", "remove_trigger"}

C13_RemoveUnknownRaises ==
    [][(last'.op = "remove_trigger" /\ last'.arg \notin Registered) =>
          last'.exc = "TriggerValidationError"]_vars

(***************************************************************************)
(* C14                                                                     *)
(***************************************************************************)
\* C14: validate_condition fails with TriggerValidationError on a
\* condition that does not parse, returns without error on one that does,
\* and leaves the registered triggers as they were.
C14_ValidateRaisesOnInvalid ==
    [][\A condition \in DOMAIN ParseResults :
          validate_condition(condition) =>
              /\ triggers' = triggers
              /\ Unparseable(condition) => last'.exc = "TriggerValidationError"
              /\ ~Unparseable(condition) => last'.exc = ""]_vars

(***************************************************************************)
(* An evaluator driven on its own: parse_expression, evaluate and          *)
(* clear_cache of one ConditionEvaluator, called with the source strings   *)
(* below in any order.                                                     *)
(***************************************************************************)
SrcCloseAboveSma == <<"c", "l", "o", "s", "e", " ", ">", " ", "i", "n", "d", "i", "c", "a", "t", "o", "r", "s", ".", "s", "m", "a">>

Sources == {SrcCloseAbove, SrcCloseBelow, SrcSmaBelowClose, SrcCloseAboveSma,
            SrcSma, SrcDangling, SrcBadChar, SrcBlank}

\* how a call of the evaluator returned: hit and size are the residence of
\* the source string and the length of the cache when the call was made
Answered(op, exc, ast, val, context, hit, size) ==
    [op |-> op, exc |-> exc, ast |-> ast, val |-> val, context |-> context,
     hit |-> hit, size |-> size]

\* BaseEvaluator.parse_expression of the evaluator
parse_expression(expression_str) ==
    \E r \in {ParseExpression(cache, expression_str, evaluator)} :
        /\ cache' = r.cache
        /\ source' = expression_str
        /\ answer' = Answered("parse_expression", IF r.ok THEN "" ELSE "ParseError",
                              r.node, FALSE, EmptyMap, expression_str \in CacheKeys(cache),
                              Len(cache))
        /\ UNCHANGED <<triggers, strategy_vars, job_vars, last, evaluator, reference>>

\* ConditionEvaluator.evaluate / ExpressionEvaluator.evaluate of an
\* expression string: val is the bool, or the float, it returns
evaluate(expression_str, context) ==
    \E r \in {IF evaluator = "ConditionParser"
              THEN ConditionEvaluate(cache, StrCondition(expression_str), context)
              ELSE ExpressionEvaluate(cache, expression_str, context)} :
        /\ cache' = r.cache
        /\ source' = expression_str
        /\ answer' = Answered("evaluate", IF r.ok THEN "" ELSE "EvaluationError",
                              NoNode, r.val, context, expression_str \in CacheKeys(cache),
                              Len(cache))
        /\ UNCHANGED <<triggers, strategy_vars, job_vars, last, evaluator, reference>>

\* BaseEvaluator.clear_cache
clear_cache ==
    /\ cache' = <<>>
    /\ answer' = Answered("clear_cache", "", NoNode, FALSE, EmptyMap, FALSE, Len(cache))
    /\ UNCHANGED <<triggers, strategy_vars, job_vars, last, evaluator, source, reference>>

CacheInit ==
    /\ StrategyInit
    /\ JobManagerInit
    /\ Constructed("ConditionParser")
    /\ Unwritten

\* the contexts _build_context gives on the bars of the model
BarContexts == {BuildContext(d) : d \in Bars}

CacheNext ==
    \/ \E expression_str \in Sources : parse_expression(expression_str)
    \/ \E expression_str \in Sources, context \in BarContexts :
          evaluate(expression_str, context)
    \/ clear_cache

CacheSpec == CacheInit /\ [][CacheNext]_vars

(***************************************************************************)
(* C15                                                                     *)
(***************************************************************************)
CacheWithinCapacity == Len(cache) <= cache_size

\* the AST the parser gives for the source string
Ast(expression_str) == ParseString(expression_str, "ConditionParser")

\* the entries are under distinct keys, each with the AST of its key
CacheIsSound ==
    /\ \A i, j \in 1..Len(cache) : cache[i].src = cache[j].src => i = j
    /\ \A i \in 1..Len(cache) :
          /\ Ast(cache[i].src).ok
          /\ cache[i].ast = Ast(cache[i].src).node

\* C15: the cache never holds more entries than its capacity; a call that
\* parses a source string that is not resident inserts it behind the
\* resident entries, after deleting exactly the earliest-inserted one when
\* the cache is full; a call with a resident source string returns its
\* cached AST and leaves the cache as it is, order included; a call that
\* fails to parse leaves the cache as it is.
C15_CacheIsFifo ==
    /\ [](CacheWithinCapacity /\ CacheIsSound)
    /\ [][answer'.op \in {"parse_expression", "evaluate"} =>
             IF source' \in CacheKeys(cache)
             THEN /\ cache' = cache
                  /\ answer'.op = "parse_expression" =>
                        /\ answer'.exc = ""
                        /\ answer'.ast = GetFromCache(cache, source')
             ELSE IF IsBlank(source') \/ ~Ast(source').ok
                  THEN /\ cache' = cache
                       /\ answer'.op = "parse_expression" => answer'.exc = "ParseError"
             ELSE /\ cache' = Append(IF Len(cache) = cache_size THEN Tail(cache) ELSE cache,
                                     [src |-> source', ast |-> Ast(source').node])
                  /\ answer'.op = "parse_expression" =>
                        /\ answer'.exc = ""
                        /\ answer'.ast = Ast(source').node]_vars

\* a source string that was not resident has been parsed into a full cache
\* and is its newest entry
C15_Witness ==
    /\ answer.op = "parse_expression"
    /\ answer.exc = ""
    /\ ~answer.hit
    /\ answer.size = cache_size
    /\ Len(cache) = cache_size
    /\ cache[Len(cache)].src = source

(***************************************************************************)
(* Expression strings.  An expression string is written from a reference   *)
(* tree, with the parentheses its grouping needs or with every group in    *)
(* parentheses, or is a list of tokens; one evaluator then parses or       *)
(* evaluates it.                                                           *)
(***************************************************************************)
MaxOperators == 2
MaxConnectives == 2
MaxTokens == 5

VarA == VariableNode(<<"a">>)
VarB == VariableNode(<<"b">>)
Two == NumberNode(RatInt(2))

Leaves == {VarA, VarB, Two}
MathOperators == {"+", "-", "*", "/"}
ComparisonOperators == {<<">">>, <<"<", "=">>}
LogicalOperators == {"and", "or"}

RECURSIVE MathTrees(_)
\* the arithmetic trees of n operators
MathTrees(n) ==
    IF n = 0 THEN Leaves
    ELSE UNION {{MathNode(l, op, r) : l \in MathTrees(i), op \in MathOperators,
                                     r \in MathTrees(n - 1 - i)} : i \in 0..(n - 1)}

Arithmetic == UNION {MathTrees(n) : n \in 0..MaxOperators}

\* one comparison between two arithmetic trees
Comparisons ==
    {ComparisonNode(l, <<">">>, Two) : l \in Arithmetic}
    \cup {ComparisonNode(l, op, r) : l \in Leaves, op \in ComparisonOperators,
                                    r \in MathTrees(1)}

Atoms == {ComparisonNode(VarA, <<">">>, Two), ComparisonNode(VarB, <<">">>, Two)}

\* a comparison whose left operand needs a group
GroupAtom == ComparisonNode(MathNode(MathNode(VarA, "-", VarB), "*", Two), <<">">>, VarB)

RECURSIVE LogicalTrees(_)
\* the trees of n connectives over the atoms
LogicalTrees(n) ==
    IF n = 0 THEN Atoms
    ELSE UNION {{LogicalNode(l, op, r) : l \in LogicalTrees(i), op \in LogicalOperators,
                                        r \in LogicalTrees(n - 1 - i)} : i \in 0..(n - 1)}

\* one connective between an atom and the comparison with a group
GroupTrees ==
    {LogicalNode(GroupAtom, op, r) : op \in LogicalOperators, r \in Atoms}
    \cup {LogicalNode(l, op, GroupAtom) : l \in Atoms, op \in LogicalOperators}

Conditions ==
    Comparisons \cup GroupTrees \cup UNION {LogicalTrees(n) : n \in 1..MaxConnectives}

\* a connective with an arithmetic operand
Malformed ==
    {LogicalNode(l, op, r) : l \in Leaves \cup MathTrees(1), op \in LogicalOperators,
                            r \in Atoms \cup {GroupAtom}}
    \cup {LogicalNode(l, op, r) : l \in Atoms \cup {GroupAtom}, op \in LogicalOperators,
                                 r \in Leaves \cup MathTrees(1)}

\* a comparison or a connective as an operand of a comparison or of an
\* arithmetic operator
Mistyped ==
    {ComparisonNode(l, <<">">>, Two) : l \in Atoms \cup LogicalTrees(1)}
    \cup {ComparisonNode(Two, <<">">>, r) : r \in Atoms}
    \cup {ComparisonNode(MathNode(l, op, Two), <<">">>, Two) : l \in Atoms, op \in {"+", "*"}}

ReferenceTrees == Arithmetic \cup Conditions \cup Malformed \cup Mistyped

\* the levels of the grammar, lowest first
Precedence(node) ==
    CASE node.kind = "Logical" -> IF node.operator = "or" THEN 1 ELSE 2
      [] node.kind = "Comparison" -> 3
      [] node.kind = "Math" -> IF node.operator \in {"+", "-"} THEN 4 ELSE 5
      [] OTHER -> 6

DigitChar(d) == <<"0", "1", "2", "3", "4", "5", "6", "7", "8", "9">>[d + 1]

RECURSIVE Decimal(_)
\* the decimal digits of a natural number
Decimal(n) ==
    IF n < 10 THEN <<DigitChar(n)>> ELSE Append(Decimal(n \div 10), DigitChar(n % 10))

OperatorLexeme(node) ==
    CASE node.kind = "Math" -> <<node.operator>>
      [] node.kind = "Comparison" -> node.operator
      [] node.kind = "Logical" ->
            IF node.operator = "and" THEN <<"a", "n", "d">> ELSE <<"o", "r">>

Groupings == {"minimal", "full", "wrapped"}

Grouped(lexemes, parenthesized) ==
    IF parenthesized THEN <<(<<"(">>)>> \o lexemes \o <<(<<")">>)>> ELSE lexemes

\* the operand child of node is written in parentheses: always when it is
\* a group and every group is, otherwise when it is of a lower level than
\* node, or of the same level and on the right (the levels associate to
\* the left; a comparison takes no comparison on either side)
NeedsGroup(node, child, right, grouping) ==
    IF grouping # "minimal" THEN Precedence(child) < 6
    ELSE \/ Precedence(child) < Precedence(node)
         \/ Precedence(child) = Precedence(node) /\ (right \/ node.kind = "Comparison")

RECURSIVE Written(_, _)
\* the lexemes of the tree, in order
Written(node, grouping) ==
    CASE node.kind = "Number" -> <<Decimal(node.value.n)>>
      [] node.kind = "Variable" -> <<node.name>>
      [] OTHER ->
            Grouped(Written(node.left, grouping),
                    NeedsGroup(node, node.left, FALSE, grouping))
            \o <<OperatorLexeme(node)>>
            \o Grouped(Written(node.right, grouping),
                       NeedsGroup(node, node.right, TRUE, grouping))

RECURSIVE Text(_)
\* the lexemes separated by one space, none inside a parenthesis
Text(lexemes) ==
    IF lexemes = <<>> THEN <<>>
    ELSE IF Len(lexemes) = 1 THEN lexemes[1]
    ELSE lexemes[1]
         \o (IF lexemes[1] = <<"(">> \/ lexemes[2] = <<")">> THEN <<>> ELSE <<" ">>)
         \o Text(Tail(lexemes))

\* the expression string of the tree
Write(tree, grouping) == Text(Grouped(Written(tree, grouping), grouping = "wrapped"))

TokenLexemes == {<<"a">>, <<"-">>, <<">">>, <<"(">>, <<")">>}

TokenLists == UNION {[1..n -> TokenLexemes] : n \in 0..MaxTokens}

\* the contexts an expression string is evaluated in: a is 1 or 11, b is 3
\* or is absent
KeyA == <<"a">>
KeyB == <<"b">>
Contexts ==
    {KeyA :> PyFloat(RatInt(x)) : x \in {1, 11}}
    \cup {(KeyA :> PyFloat(RatInt(x))) @@ (KeyB :> PyFloat(RatInt(3))) : x \in {1, 11}}

ParserInit ==
    /\ StrategyInit
    /\ JobManagerInit
    /\ \E cls \in {"ConditionParser", "ExpressionParser"} : Constructed(cls)
    /\ \/ \E lexemes \in TokenLists :
             /\ reference = [tree |-> NoNode, grouping |-> "none"]
             /\ source = Text(lexemes)
       \/ \E tree \in ReferenceTrees, grouping \in Groupings :
             /\ reference = [tree |-> tree, grouping |-> grouping]
             /\ source = Write(tree, grouping)

\* one call of the evaluator with the expression string
ParserNext ==
    \/ answer = NoAnswer /\ parse_expression(source)
    \/ \E context \in Contexts : answer = NoAnswer /\ evaluate(source, context)

ParserSpec == ParserInit /\ [][ParserNext]_vars

\* the evaluator parses conditions
OfConditions == evaluator = "ConditionParser"

(***************************************************************************)
(* C16                                                                     *)
(***************************************************************************)
\* C16: the value of a condition whose tree is a connective follows from
\* the values of its operands: an error of the left operand is the error
\* of the whole; "and" with a false left operand is false and "or" with a
\* true left operand is true, whatever the right operand is or raises;
\* otherwise the error of the right operand is the error of the whole, or
\* the value is the truth value of the right operand.
C16_LogicalShortCircuits ==
    (/\ OfConditions
     /\ answer.op = "evaluate"
     /\ reference.tree \in Conditions
     /\ reference.tree.kind = "Logical") =>
        LET left == Evaluate(reference.tree.left, answer.context)
            right == Evaluate(reference.tree.right, answer.context)
            operator == reference.tree.operator
        IN  IF ~left.ok THEN answer.exc = "EvaluationError"
            ELSE IF operator = "and" /\ ~Truthy(left.val)
                 THEN answer.exc = "" /\ answer.val = FALSE
            ELSE IF operator = "or" /\ Truthy(left.val)
                 THEN answer.exc = "" /\ answer.val = TRUE
            ELSE IF ~right.ok THEN answer.exc = "EvaluationError"
            ELSE answer.exc = "" /\ answer.val = Truthy(right.val)

\* 'a > 2 and b > 2' has been evaluated to false in a context without b
C16_Witness ==
    /\ OfConditions
    /\ answer.op = "evaluate"
    /\ reference.tree = LogicalNode(ComparisonNode(VarA, <<">">>, Two), "and",
                                    ComparisonNode(VarB, <<">">>, Two))
    /\ reference.grouping = "minimal"
    /\ KeyB \notin DOMAIN answer.context
    /\ answer.context[KeyA] = PyFloat(RatInt(1))
    /\ answer.exc = ""
    /\ answer.val = FALSE

(***************************************************************************)
(* C17                                                                     *)
(***************************************************************************)
\* the trees of the grammar of the evaluator
WellFormed == IF OfConditions THEN Conditions ELSE Arithmetic

\* C17: an expression string written from a tree of the evaluator's grammar
\* with only the parentheses its grouping needs (a lower level under a
\* higher one, or the same level on the right) parses to that tree, and its
\* value in every context is the value of that tree.
C17_PrecedenceAndAssociativity ==
    (reference.grouping = "minimal" /\ reference.tree \in WellFormed) =>
        /\ answer.op = "parse_expression" =>
              /\ answer.exc = ""
              /\ answer.ast = reference.tree
        /\ answer.op = "evaluate" =>
              LET expected == Evaluate(reference.tree, answer.context)
              IN  IF ~expected.ok THEN answer.exc = "EvaluationError"
                  ELSE /\ answer.exc = ""
                       /\ answer.val = IF OfConditions THEN Truthy(expected.val)
                                       ELSE expected.val

\* 'a - b - 2' has been evaluated with a = 11 and b = 3 to (11 - 3) - 2
C17_Witness ==
    /\ ~OfConditions
    /\ answer.op = "evaluate"
    /\ reference.tree = MathNode(MathNode(VarA, "-", VarB), "-", Two)
    /\ reference.grouping = "minimal"
    /\ KeyB \in DOMAIN answer.context
    /\ answer.context[KeyA] = PyFloat(RatInt(11))
    /\ answer.exc = ""
    /\ answer.val = RatInt(6)

(***************************************************************************)
(* C18                                                                     *)
(***************************************************************************)
HasGroup(s) == \E i \in 1..Len(s) : s[i] = "("

\* C18: a condition string with parenthesized groups, around arithmetic
\* operands and around comparisons and connectives, nested or not, parses to
\* the tree it was written from.
C18_GroupsHoldArithmeticOrBoolean ==
    (/\ OfConditions
     /\ answer.op = "parse_expression"
     /\ reference.tree \in Conditions
     /\ HasGroup(source)) =>
        /\ answer.exc = ""
        /\ answer.ast = reference.tree

\* '(((a - b) * 2) > b) and (b > 2)' has been parsed
C18_Witness ==
    /\ OfConditions
    /\ answer.op = "parse_expression"
    /\ answer.exc = ""
    /\ reference.grouping = "full"
    /\ reference.tree = LogicalNode(GroupAtom, "and", ComparisonNode(VarB, <<">">>, Two))
    /\ answer.ast = reference.tree

(***************************************************************************)
(* C19                                                                     *)
(***************************************************************************)
\* C19: a condition string written from an arithmetic tree, in parentheses
\* or not, or from a connective one of whose operands is an arithmetic
\* tree, fails to parse with ParseError and to evaluate with
\* EvaluationError.
C19_BareArithmeticRejected ==
    (OfConditions /\ reference.tree \in Arithmetic \cup Malformed) =>
        /\ answer.op = "parse_expression" => answer.exc = "ParseError"
        /\ answer.op = "evaluate" => answer.exc = "EvaluationError"

\* '(a > 2) and (a + b)' has been rejected
C19_Witness ==
    /\ OfConditions
    /\ answer.op = "parse_expression"
    /\ answer.exc = "ParseError"
    /\ reference.grouping = "full"
    /\ reference.tree = LogicalNode(ComparisonNode(VarA, <<">">>, Two), "and",
                                    MathNode(VarA, "+", VarB))

(***************************************************************************)
(* C20                                                                     *)
(***************************************************************************)
\* the tokens of the expression string
SourceTokens == Tokenize(source).tokens

RECURSIVE Flatten(_)
\* the leaves and the operators of the tree, in order
Flatten(node) ==
    IF node.kind \in {"Number", "Variable"} THEN <<node>>
    ELSE Flatten(node.left) \o <<OperatorLexeme(node)>> \o Flatten(node.right)

\* the tokens but the parentheses, as leaves and operators
Consumed(tokens) ==
    LET NoParenthesis(token) == token.type \notin {"LPAREN", "RPAREN"}
        kept == SelectSeq(tokens, NoParenthesis)
    IN  [i \in 1..Len(kept) |->
            IF kept[i].type = "NUMBER" THEN NumberNode(ToFloat(kept[i].value))
            ELSE IF kept[i].type \in {"IDENTIFIER", "BRACKET_VAR", "DOT_VAR"}
                 THEN VariableNode(kept[i].value)
            ELSE kept[i].value]

\* opening minus closing parentheses among the first k tokens
Depth(tokens, k) ==
    Cardinality({i \in 1..k : tokens[i].type = "LPAREN"})
    - Cardinality({i \in 1..k : tokens[i].type = "RPAREN"})

OperatorTypes == {"MATH_OP", "COMPARISON_OP", "LOGICAL_OP"}

\* two comparison operators with operands and arithmetic between them only
Chained(tokens) ==
    \E i, j \in 1..Len(tokens) :
        /\ i < j
        /\ tokens[i].type = "COMPARISON_OP"
        /\ tokens[j].type = "COMPARISON_OP"
        /\ \A k \in (i + 1)..(j - 1) :
              tokens[k].type \notin {"LPAREN", "RPAREN", "LOGICAL_OP"}

\* the inputs no parse accepts
NeverAccepted(tokens) ==
    \/ tokens = <<>>
    \/ \E k \in 1..Len(tokens) : Depth(tokens, k) < 0
    \/ Depth(tokens, Len(tokens)) > 0
    \/ tokens # <<>> /\ tokens[1].type = "MATH_OP"
    \/ tokens # <<>> /\ tokens[Len(tokens)].type \in OperatorTypes
    \/ Chained(tokens)

\* the expression string is one of the token lists
OfTokens == reference.grouping = "none"

\* C20: parse_expression either fails with ParseError, returning no tree,
\* or returns a tree; for every list of tokens the leaves and operators of
\* the tree are, in order, all the tokens but the parentheses, and the
\* parse fails on the empty list, on a ')' without a '(' before it, on a
\* '(' that is not closed, on a leading arithmetic operator, on an operator
\* at the end and on a second comparison operator in a chain.
C20_ParseErrorOrWholeInput ==
    answer.op = "parse_expression" =>
        /\ \/ answer.exc = "ParseError" /\ answer.ast = NoNode
           \/ answer.exc = "" /\ answer.ast # NoNode
        /\ OfTokens =>
              /\ answer.exc = "" => Flatten(answer.ast) = Consumed(SourceTokens)
              /\ NeverAccepted(SourceTokens) => answer.exc = "ParseError"

\* 'a > a > a' has been rejected
C20_Witness ==
    /\ OfConditions
    /\ answer.op = "parse_expression"
    /\ answer.exc = "ParseError"
    /\ OfTokens
    /\ source = Text(<< <<"a">>, <<">">>, <<"a">>, <<">">>, <<"a">> >>)

(***************************************************************************)
(* C21                                                                     *)
(***************************************************************************)
RECURSIVE IsArithmetic(_)
\* a Number, a Variable, or a Math node over arithmetic operands
IsArithmetic(node) ==
    \/ node.kind \in {"Number", "Variable"}
    \/ node.kind = "Math" /\ IsArithmetic(node.left) /\ IsArithmetic(node.right)

RECURSIVE WellTyped(_)
\* every Comparison and every Math node of the tree has arithmetic operands
WellTyped(node) ==
    CASE node.kind = "Logical" -> WellTyped(node.left) /\ WellTyped(node.right)
      [] node.kind = "Comparison" -> IsArithmetic(node.left) /\ IsArithmetic(node.right)
      [] OTHER -> IsArithmetic(node)

\* C21: in every tree the condition parser returns, both operands of every
\* Comparison node and of every Math node are arithmetic nodes.
C21_OperandsAreArithmetic ==
    (OfConditions /\ answer.op = "parse_expression" /\ answer.exc = "") =>
        WellTyped(answer.ast)

(***************************************************************************)
(* C23                                                                     *)
(***************************************************************************)
\* C23: the value of an arithmetic expression whose tree is a Math node
\* follows from the values of both operands: an error of either operand
\* is an EvaluationError of the whole, whatever the other operand is; a
\* division whose right operand is zero is an EvaluationError for every
\* dividend; otherwise there is no error.
C23_DivisionByZeroAndBothOperands ==
    (/\ ~OfConditions
     /\ answer.op = "evaluate"
     /\ reference.tree \in Arithmetic
     /\ reference.tree.kind = "Math") =>
        LET left == Evaluate(reference.tree.left, answer.context)
            right == Evaluate(reference.tree.right, answer.context)
        IN  IF ~left.ok \/ ~right.ok THEN answer.exc = "EvaluationError"
            ELSE IF reference.tree.operator = "/" /\ right.val = RatInt(0)
                 THEN answer.exc = "EvaluationError"
            ELSE answer.exc = ""

\* '2 / (a - a)' has failed to evaluate
C23_Witness ==
    /\ ~OfConditions
    /\ answer.op = "evaluate"
    /\ reference.tree = MathNode(Two, "/", MathNode(VarA, "-", VarA))
    /\ reference.grouping = "minimal"
    /\ answer.exc = "EvaluationError"

\* '(a - a) * b' has failed to evaluate in a context without b
C23_WitnessNoShortCircuit ==
    /\ ~OfConditions
    /\ answer.op = "evaluate"
    /\ reference.tree = MathNode(MathNode(VarA, "-", VarA), "*", VarB)
    /\ KeyB \notin DOMAIN answer.context
    /\ answer.exc = "EvaluationError"

(***************************************************************************)
(* Variable lookup: an ExpressionEvaluator evaluates one variable name in  *)
(* a context that has or lacks the name as a key and has or lacks a        *)
(* strategy object the name resolves in.                                   *)
(***************************************************************************)
KeyRsi == <<"r", "s", "i">>

VariableNames ==
    {KeySma, KeyRsi, KeyIndicators, KeyIndicatorsSma,
     KeyIndicators \o <<".">> \o KeyRsi,
     KeyIndicators \o <<"[">> \o KeySma \o <<"]">>,
     KeyDatas \o <<"[", "0", "]">>,
     KeySma \o <<".">> \o KeyRsi}

\* the values a flat key can hold: two floats and an object
FlatValues == {PyFloat(RatInt(5)), PyFloat(RatInt(7)), Opaque}

\* the strategy objects: sma and indicators.sma are attributes of the
\* first, indicators['sma'] is an item of the second
StrategyObjects ==
    {PyObject((KeySma :> PyFloat(RatInt(3)))
              @@ (KeyIndicators :> PyObject(KeySma :> PyFloat(RatInt(9))))
              @@ (KeyDatas :> PyList(<<PyFloat(RatInt(4))>>))),
     PyObject((KeyIndicators :> PyDict(KeySma :> PyFloat(RatInt(9))))
              @@ (KeyRsi :> Opaque))}

\* a context: at most one flat key besides the strategy object, if any
LookupContexts ==
    LET roots == {EmptyMap} \cup {StrategyKey :> o : o \in StrategyObjects}
        flats == {EmptyMap} \cup {k :> v : k \in {KeySma, KeyIndicatorsSma}, v \in FlatValues}
    IN  {flat @@ root : flat \in flats, root \in roots}

LookupInit ==
    /\ StrategyInit
    /\ JobManagerInit
    /\ Constructed("ExpressionParser")
    /\ reference = [tree |-> NoNode, grouping |-> "none"]
    /\ source \in VariableNames

LookupNext == \E context \in LookupContexts : answer = NoAnswer /\ evaluate(source, context)

LookupSpec == LookupInit /\ [][LookupNext]_vars

(***************************************************************************)
(* C24                                                                     *)
(***************************************************************************)
\* the name has a dot or a bracket
Structured(name) == \E i \in 1..Len(name) : name[i] \in {".", "[", "]"}

\* C24: a variable whose full text is a key of the context has the value
\* under that key (an EvaluationError when that value is no number), also
\* when the text has dots or brackets and resolves through the strategy
\* object; a variable without dot or bracket that is no key of the context
\* fails with EvaluationError, also when the strategy object has an
\* attribute of that name.
C24_FlatKeyFirst ==
    (answer.op = "evaluate" /\ source \in VariableNames) =>
        IF source \in DOMAIN answer.context
        THEN IF answer.context[source].t = "float"
             THEN answer.exc = "" /\ answer.val = answer.context[source].v
             ELSE answer.exc = "EvaluationError"
        ELSE ~Structured(source) => answer.exc = "EvaluationError"

\* 'indicators.sma' has the value 5 of the flat key, not the 9 of the
\* strategy object
C24_Witness ==
    /\ answer.op = "evaluate"
    /\ source = KeyIndicatorsSma
    /\ StrategyKey \in DOMAIN answer.context
    /\ KeyIndicatorsSma \in DOMAIN answer.context
    /\ answer.exc = ""
    /\ answer.val = RatInt(5)

\* 'sma' is not found although the strategy object has the attribute
C24_WitnessNotFound ==
    /\ answer.op = "evaluate"
    /\ source = KeySma
    /\ KeySma \notin DOMAIN answer.context
    /\ StrategyKey \in DOMAIN answer.context
    /\ KeySma \in DOMAIN answer.context[StrategyKey].attrs
    /\ answer.exc = "EvaluationError"

\* 'indicators.sma' resolves through the strategy object when it is no key
C24_WitnessPath ==
    /\ answer.op = "evaluate"
    /\ source = KeyIndicatorsSma
    /\ KeyIndicatorsSma \notin DOMAIN answer.context
    /\ answer.exc = ""
    /\ answer.val = RatInt(9)

(***************************************************************************)
(* The tokenizer on its own: tokenize is called once with a string over    *)
(* the alphabet below, or with 'close >@ 100'.                             *)
(***************************************************************************)
MaxChars == 4

Alphabet == {"a", "n", "d", "1", ".", "[", "]", ">", "=", " ", "@"}

Strings == UNION {[1..n -> Alphabet] : n \in 0..MaxChars} \cup {SrcBadChar}

\* ExpressionTokenizer.tokenize: the tokens, or TokenizeError with the
\* position and the character of its message
tokenize(expression_str) ==
    \E r \in {Tokenize(expression_str)} :
        /\ source' = expression_str
        /\ answer' = [op |-> "tokenize", exc |-> IF r.ok THEN "" ELSE "TokenizeError",
                      tokens |-> r.tokens,
                      position |-> IF r.ok THEN 0 ELSE r.position,
                      char |-> r.char]
        /\ UNCHANGED <<triggers, strategy_vars, job_vars, last, evaluator, cache, reference>>

TokenizerInit ==
    /\ StrategyInit
    /\ JobManagerInit
    /\ Constructed("ConditionParser")
    /\ reference = [tree |-> NoNode, grouping |-> "none"]
    /\ source \in Strings

TokenizerNext == answer = NoAnswer /\ tokenize(source)

TokenizerSpec == TokenizerInit /\ [][TokenizerNext]_vars

(***************************************************************************)
(* C22                                                                     *)
(***************************************************************************)
\* the token types in the priority order of the patterns
PatternOrder ==
    <<"LPAREN", "RPAREN", "COMPARISON_OP", "LOGICAL_OP", "MATH_OP", "NUMBER",
      "BRACKET_VAR", "DOT_VAR", "IDENTIFIER", "WHITESPACE">>

\* the end of the match of the pattern of the type at p, 0 for no match
MatchOf(type, s, p) ==
    CASE type = "LPAREN" -> MatchLParen(s, p)
      [] type = "RPAREN" -> MatchRParen(s, p)
      [] type = "COMPARISON_OP" -> MatchComparisonOp(s, p)
      [] type = "LOGICAL_OP" -> MatchLogicalOp(s, p)
      [] type = "MATH_OP" -> MatchMathOp(s, p)
      [] type = "NUMBER" -> MatchNumber(s, p)
      [] type = "BRACKET_VAR" -> MatchBracketVar(s, p)
      [] type = "DOT_VAR" -> MatchDotVar(s, p)
      [] type = "IDENTIFIER" -> MatchIdentifier(s, p)
      [] type = "WHITESPACE" -> MatchWhitespace(s, p)

\* the token is the match at its position of the first pattern, in
\* priority order, that matches there, and is no whitespace
IsFirstMatch(s, token) ==
    \E i \in 1..(Len(PatternOrder) - 1) :
        /\ token.type = PatternOrder[i]
        /\ token.value # <<>>
        /\ MatchOf(PatternOrder[i], s, token.position + 1)
              = token.position + 1 + Len(token.value)
        /\ token.value = Slice(s, token.position + 1, token.position + 1 + Len(token.value))
        /\ \A j \in 1..(i - 1) : MatchOf(PatternOrder[j], s, token.position + 1) = 0

\* the characters from position from (0-based) up to position to are
\* whitespace only
Skipped(s, from, to) == \A q \in (from + 1)..to : s[q] \in Spaces

\* the tokens cover the string up to their end in order, with whitespace
\* only before, between and after them
InEncounterOrder(s, tokens) ==
    /\ \A k \in 1..Len(tokens) : IsFirstMatch(s, tokens[k])
    /\ \A k \in 1..Len(tokens) :
          Skipped(s, IF k = 1 THEN 0
                     ELSE tokens[k - 1].position + Len(tokens[k - 1].value),
                  tokens[k].position)
    /\ Skipped(s, IF tokens = <<>> THEN 0
                  ELSE tokens[Len(tokens)].position + Len(tokens[Len(tokens)].value),
               Len(s))

\* C22: tokenize returns the tokens in encounter order, each with its
\* start offset and each the match of the first pattern in priority order
\* that matches at its offset, with whitespace only between them; or it
\* fails with TokenizeError at the first scan position where no pattern
\* matches (the string before it is tokenized in full), reporting that
\* offset and the character there; 'close >@ 100' fails with '@' at 7.
C22_FirstMatchOrErrorPosition ==
    answer.op = "tokenize" =>
        /\ answer.exc = "" => InEncounterOrder(source, answer.tokens)
        /\ answer.exc = "TokenizeError" =>
              /\ answer.position < Len(source)
              /\ answer.char = source[answer.position + 1]
              /\ \A i \in 1..Len(PatternOrder) :
                    MatchOf(PatternOrder[i], source, answer.position + 1) = 0
              /\ Tokenize(SubSeq(source, 1, answer.position)).ok
        /\ answer.exc \in {"", "TokenizeError"}
        /\ source = SrcBadChar =>
              answer.exc = "TokenizeError" /\ answer.position = 7 /\ answer.char = "@"

\* 'close >@ 100' has been tokenized
C22_Witness ==
    /\ answer.op = "tokenize"
    /\ source = SrcBadChar
    /\ answer.exc = "TokenizeError"
    /\ answer.position = 7

\* 'a.n>' has been tokenized to a DOT_VAR and a COMPARISON_OP
C22_WitnessTokens ==
    /\ answer.op = "tokenize"
    /\ source = <<"a", ".", "n", ">">>
    /\ answer.exc = ""
    /\ Len(answer.tokens) = 2
    /\ answer.tokens[1].type = "DOT_VAR"

(***************************************************************************)
(* JobManager (mcp_server/jobs.py).  Calls of create_job come from the     *)
(* server's request threads, calls of update_job_status from the           *)
(* background workers; what they do to _jobs is done under the lock.       *)
(***************************************************************************)
max_jobs == 2

\* the jobs _prune_if_needed removes beyond those that bring the number
\* under the capacity
PruneBuffer == 10

\* the number of create_job calls of a run
MaxCreated == 4

BacktestJob(job_id, created_at) ==
    [job_id |-> job_id, status |-> "pending", created_at |-> created_at]

JobIds(js) == {js[i].job_id : i \in 1..Len(js)}

\* JobManager._prune_if_needed: the jobs that stay
PruneIfNeeded(js) ==
    IF Len(js) < max_jobs THEN js
    ELSE LET prunable == {i \in 1..Len(js) : js[i].status \in {"completed", "failed"}}
             to_remove == Len(js) - max_jobs + PruneBuffer
             Earlier(i) ==
                 {k \in prunable : \/ js[k].created_at < js[i].created_at
                                   \/ js[k].created_at = js[i].created_at /\ k < i}
             Kept(job) == \E i \in 1..Len(js) :
                             /\ js[i] = job
                             /\ ~(i \in prunable /\ Cardinality(Earlier(i)) < to_remove)
         IN  SelectSeq(js, Kept)

\* the body of update_job_status under the lock
UpdateJobStatus(js, job_id, status) ==
    [i \in 1..Len(js) |-> IF js[i].job_id = job_id THEN [js[i] EXCEPT !.status = status]
                          ELSE js[i]]

\* create_job up to the lock: the job is built with a fresh id and the time
create_job_build ==
    /\ clock < MaxCreated
    /\ clock' = clock + 1
    /\ creating' = creating \cup {BacktestJob(clock + 1, clock + 1)}
    /\ UNCHANGED <<triggers, strategy_vars, last, evaluator_vars, jobs, threads>>

\* create_job under the lock: prune, then insert
create_job(job) ==
    /\ job \in creating
    /\ creating' = creating \ {job}
    /\ jobs' = Append(PruneIfNeeded(jobs), job)
    /\ UNCHANGED <<triggers, strategy_vars, last, evaluator_vars, threads, clock>>

\* run_job_async: the server starts the worker of a job it has created
run_job_async(job_id) ==
    /\ \E i \in 1..Len(jobs) : jobs[i].job_id = job_id /\ jobs[i].status = "pending"
    /\ job_id \notin DOMAIN threads
    /\ threads' = Put(threads, job_id, "update_running")
    /\ UNCHANGED <<triggers, strategy_vars, last, evaluator_vars, jobs, creating, clock>>

\* worker: update_job_status(job_id, RUNNING), then the task runs
worker_running(job_id) ==
    /\ job_id \in DOMAIN threads
    /\ threads[job_id] = "update_running"
    /\ jobs' = UpdateJobStatus(jobs, job_id, "running")
    /\ threads' = Put(threads, job_id, "task")
    /\ UNCHANGED <<triggers, strategy_vars, last, evaluator_vars, creating, clock>>

\* worker: the task has returned or raised, update_job_status(job_id,
\* COMPLETED or FAILED) and the thread ends
worker_finished(job_id, status) ==
    /\ job_id \in DOMAIN threads
    /\ threads[job_id] = "task"
    /\ jobs' = UpdateJobStatus(jobs, job_id, status)
    /\ threads' = Put(threads, job_id, "ended")
    /\ UNCHANGED <<triggers, strategy_vars, last, evaluator_vars, creating, clock>>

JobInit ==
    /\ StrategyInit
    /\ JobManagerInit
    /\ Constructed("ConditionParser")
    /\ Unwritten

JobNext ==
    \/ create_job_build
    \/ \E job \in creating : create_job(job)
    \/ \E job_id \in 1..MaxCreated : run_job_async(job_id)
    \/ \E job_id \in 1..MaxCreated : worker_running(job_id)
    \/ \E job_id \in 1..MaxCreated, status \in {"completed", "failed"} :
          worker_finished(job_id, status)

JobSpec == JobInit /\ [][JobNext]_vars

(***************************************************************************)
(* C25                                                                     *)
(***************************************************************************)
\* C25: the job manager never holds more than max_jobs jobs.
C25_JobsWithinCapacity == Len(jobs) <= max_jobs

(***************************************************************************)
(* C26                                                                     *)
(***************************************************************************)
\* the actions of the trigger that have an order handle recorded
TrackedActions(to, name) ==
    IF name \in DOMAIN to THEN {a \in DOMAIN to[name] : to[name][a] # None} ELSE {}

\* C26: between the calls of the engine every trigger has at most one action
\* with a recorded order handle, and every Idle trigger has an empty pending
\* queue and no recorded order handle.
C26_OneHandleAndIdleIsClean ==
    \A name \in TriggerNames :
        /\ Cardinality(TrackedActions(trigger_orders, name)) <= 1
        /\ Idle(name) => /\ Queue(pending_actions, name) = <<>>
                         /\ TrackedActions(trigger_orders, name) = {}

\* the first order of a three-action sequence has completed: its handle is
\* cleared, the second action holds the only handle and the third waits in
\* the queue, while the other trigger is Idle after a failed order
C26_Witness ==
    /\ last.op = "notify_order"
    /\ Active("entry")
    /\ TrackedActions(trigger_orders, "entry") = {"stop"}
    /\ trigger_orders["entry"]["buy"] = None
    /\ Queue(pending_actions, "entry") = <<"buy">>
    /\ Idle("exit")
    /\ "exit" \in DOMAIN trigger_orders
    /\ \E o \in 1..Len(orders) : orders[o].trigger = "exit" /\ orders[o].status = "Failed"

(***************************************************************************)
(* C27                                                                     *)
(***************************************************************************)
\* execute_action raises when _process_next_action submits the action queued
\* behind the order
CompletionRaises(order, accept) ==
    NotifyOrder([Strategy EXCEPT !.orders = Booked(@, order, "Completed")],
                triggers, order, "Completed", accept, data, date).exc

\* C27: when the submission of a queued action raises in the completion
\* handler, notify_order returns without exception and the trigger is Idle
\* with its pending queue cleared.
C27_SubmissionErrorIsContained ==
    [][\A order \in 1..Len(orders), accept \in BOOLEAN :
          (CompletionRaises(order, accept) /\ notify_order(order, "Completed", accept)) =>
              /\ last'.exc = ""
              /\ orders[order].trigger \notin active_triggers'
              /\ Queue(pending_actions', orders[order].trigger) = <<>>]_vars

(***************************************************************************)
(* C28                                                                     *)
(***************************************************************************)
\* the step delivers the completed or failed notification of the order o,
\* the outstanding order of a trigger that was removed while Active
OutstandingOfRemoved(o) ==
    /\ orders[o].trigger \notin Registered
    /\ Active(orders[o].trigger)
    /\ o \in Handles(trigger_orders, orders[o].trigger)
    /\ CompletionOf(o) \/ FailureOf(o)

\* C28: the completed or failed notification of the outstanding order of a
\* trigger that was removed while Active takes its name out of the active
\* set.
C28_RemovedTriggerLeavesActiveSet ==
    [][\A o \in 1..Len(orders) :
          OutstandingOfRemoved(o) => orders[o].trigger \notin active_triggers']_vars

(***************************************************************************)
(* C29                                                                     *)
(***************************************************************************)
\* the step is the first completed or failed notification of the order o,
\* which a (trigger, action) pair holds
FinalOfTracked(o) ==
    /\ FindOrderTrigger(Strategy, o) # {}
    /\ CompletionOf(o) \/ FailureOf(o)

\* C29: a notify_order call that is not the completed or failed notification
\* of an order some (trigger, action) pair holds (the order was never
\* tracked, its handle was cleared before, or the status is Submitted,
\* Accepted or Partial) returns without exception, places no order and
\* leaves the pending queues, the recorded handles and the active set
\* unchanged.
C29_UntrackedNotificationChangesNothing ==
    [][(last'.op = "notify_order" /\ \A o \in 1..Len(orders) : ~FinalOfTracked(o))
          => /\ UNCHANGED <<pending_actions, trigger_orders, active_triggers>>
             /\ NewOrders = {}
             /\ NewFirings = {}
             /\ last'.exc = ""]_vars

\* a notification has been delivered for the only order placed so far, which
\* had failed before and whose handle was cleared then: its trigger has
\* fired again since (the submission returned no order) and is still Active
\* with its queue
C29_Witness ==
    /\ last.op = "notify_order"
    /\ Len(orders) = 1
    /\ orders[1].status = "Failed"
    /\ Active(orders[1].trigger)
    /\ Queue(pending_actions, orders[1].trigger) # <<>>
    /\ Handles(trigger_orders, orders[1].trigger) = {}

(***************************************************************************)
(* C30                                                                     *)
(***************************************************************************)
\* tokenizing or parsing the source string fails
FailsToParse(expression_str) == IsBlank(expression_str) \/ ~Ast(expression_str).ok

\* C30: no source string that fails to tokenize or parse is ever in the
\* cache; a parse_expression that fails leaves the cache, order included, as
\* it was, and parse_expression of the same string fails again, at once and
\* at any later time.
C30_FailedParseIsNotCached ==
    /\ [](\A i \in 1..Len(cache) : ~FailsToParse(cache[i].src))
    /\ [](\A expression_str \in Sources :
             FailsToParse(expression_str)
                => ~ParseExpression(cache, expression_str, evaluator).ok)
    /\ [][(answer'.op = "parse_expression" /\ answer'.exc = "ParseError")
             => /\ FailsToParse(source')
                /\ cache' = cache
                /\ ~ParseExpression(cache', source', evaluator).ok]_vars

\* a string with a character the tokenizer does not know has been given to
\* parse_expression while the cache was full
C30_Witness ==
    /\ answer.op = "parse_expression"
    /\ answer.exc = "ParseError"
    /\ source = SrcBadChar
    /\ answer.size = cache_size
    /\ Len(cache) = cache_size

\* the same with a string that tokenizes and does not parse
C30_WitnessDangling ==
    /\ answer.op = "parse_expression"
    /\ answer.exc = "ParseError"
    /\ source = SrcDangling
    /\ answer.size = cache_size
    /\ Len(cache) = cache_size

=============================================================================
